---------------------------- MODULE Spec2Model ----------------------------
(***************************************************************************)
(* A model of lambdalocal, the local HTTP gateway in front of a Lambda     *)
(* function served over net/rpc.                                           *)
(*                                                                         *)
(* The module holds one state machine per component:                       *)
(*                                                                         *)
(*   SpecServer   runServer (src/api.go 613-684): the goroutine running    *)
(*                ListenAndServe, the signal watcher of the errgroup, the  *)
(*                connections being served and the operating system's      *)
(*                signals.                                                 *)
(*                                                                         *)
(* Library calls are modelled by their documented contract:                *)
(*   - http.Server.Shutdown sets the server's shutting-down flag, closes   *)
(*     the tracked listeners, and returns nil once no connection is        *)
(*     active, or the context's error when the context expires first.  Its *)
(*     idle poll (at most 500ms apart) is taken to observe idleness as     *)
(*     soon as it holds, and closing the listener is taken to succeed.     *)
(*   - http.Server.ListenAndServe returns ErrServerClosed when the server  *)
(*     is shutting down, the bind error when net.Listen fails, and the     *)
(*     Accept error otherwise.                                             *)
(*   - signal.Notify relays signals into the channel without blocking: a   *)
(*     signal that finds the buffer full is dropped.                       *)
(***************************************************************************)
EXTENDS Integers, Sequences, FiniteSets, TLC

(***************************************************************************)
(* Bounds of the model.                                                    *)
(***************************************************************************)
MaxRequests == 2

MaxSignals == 2

(* Invocations made in all. *)
MaxInvokes == 3

(* Headers in the reply of the function. *)
MaxReplyHeaders == 2

(* Header lines and query string pairs of a request. *)
MaxHeaderLines == 2

MaxQueryPairs == 2

(* Segments of a route path and of a request path. *)
MaxSegments == 2

Requests == 1 .. MaxRequests

(* cap(quit): quit := make(chan os.Signal, 1) *)
QuitCap == 1

VARIABLES
    mainPc,        \* position of runServer's own goroutine
    watcherPc,     \* position of the goroutine started by wg.Go
    quit,          \* number of signals buffered in the quit channel
    signals,       \* number of signals the operating system has sent
    inShutdown,    \* http.Server: Shutdown has been called
    listener,      \* "none", "open" or "closed"
    inflight,      \* requests accepted and not yet completed
    completed,     \* requests whose handler has returned
    watcherErr,    \* what the watcher goroutine returned to the errgroup
    result,        \* what runServer returned
    acceptedLate,  \* history: a request was accepted after Shutdown began
    abandoned,     \* history: requests in flight when the grace period ran out
    listenFailed   \* history: how ListenAndServe failed, "no" if it did not

serverVars == <<mainPc, watcherPc, quit, signals, inShutdown, listener,
                inflight, completed, watcherErr, result, acceptedLate,
                abandoned, listenFailed>>

VARIABLES
    callPc,        \* position of each caller in LambdaRPCClient.Invoke
    invocation,    \* number of the invocation each caller is in (0: none yet)
    invocations,   \* number of invocations started so far
    request,       \* the InvokeRequest each caller built
    conns,         \* every connection rpc.Dial opened, in order
    client,        \* each caller's client: an index of conns, 0 for none
    response,      \* each caller's local variable response
    ret,           \* what Invoke returned to each caller
    dials,         \* history: rpc.Dial calls of the caller's invocation
    rcalls,        \* history: client.Call calls of the caller's invocation
    failure,       \* history: what failed in the caller's invocation
    executionLimit, \* the client's executionLimit, in nanoseconds
    dispatched,    \* history: what time.Now() gave each caller on line 47
    overdue        \* the deadline each caller transmitted has passed

invokeVars == <<callPc, invocation, invocations, request, conns, client,
                response, ret, dials, rcalls, failure, executionLimit,
                dispatched,
                overdue>>

VARIABLES
    respPc,        \* "ready" before returnHTTPResponse is applied, "written" after
    invokeResponse, \* the InvokeResponse given to returnHTTPResponse
    writeOK,       \* whether the client's connection takes the body
    w,             \* the http.ResponseWriter
    rhrErr         \* the error returnHTTPResponse returned

responseVars == <<respPc, invokeResponse, writeOK, w, rhrErr>>

VARIABLES
    reqPc,         \* "ready" before parseHTTPRequest is applied, "parsed" after
    wire,          \* the header lines of the request, Host apart, as sent
    req,           \* the *http.Request
    eventByte,     \* the bytes parseHTTPRequest returned
    parseErr,      \* the error parseHTTPRequest returned
    matched        \* the route of the handler and how the request matched it

requestVars == <<reqPc, wire, req, eventByte, parseErr, matched>>

VARIABLES
    parseJSON,     \* the parseJSON flag the handlers were made with
    hPc,           \* per request being handled: "idle", "invoking", "done"
    hReq,          \* the *http.Request
    hConn,         \* whether the client still takes what is written to it
    hEvent,        \* the bytes passed to Invoke
    hCalls,        \* the calls of lambdaRPC.Invoke made for the request
    hRet,          \* what Invoke returned
    hW,            \* the http.ResponseWriter
    hLog           \* what the handler logged

handlerVars ==
    <<parseJSON, hPc, hReq, hConn, hEvent, hCalls, hRet, hW, hLog>>

VARIABLES
    tplPc,         \* "ready" before parseTemplate is applied, "parsed" after
    template,      \* the file at templatePath
    routes,        \* the routes parseTemplate returned
    tplErr,        \* the error parseTemplate returned
    apiPc,         \* position in RunLambdaAPI
    apiErr         \* the error RunLambdaAPI returned

templateVars == <<tplPc, template, routes, tplErr>>

VARIABLES
    innerPc,       \* "ready" before parseInnerJSON is applied, "done" after
    innerData,     \* the map given to parseInnerJSON
    innerResult,   \* the map it returned
    innerTwice     \* the map it returned when applied to innerResult

innerVars == <<innerPc, innerData, innerResult, innerTwice>>

VARIABLES
    evPc,          \* position in RunLambdaEvent
    evEvent,       \* the event string
    evParseJSON,   \* the parseJSON flag
    evData,        \* the bytes passed to Invoke
    evCalls,       \* the calls of lambdaRPC.Invoke made
    evRet,         \* what Invoke returned
    evErr,         \* the error RunLambdaEvent returned
    evLog          \* what was logged

eventVars ==
    <<evPc, evEvent, evParseJSON, evData, evCalls, evRet, evErr, evLog>>

apiVars == <<apiPc, apiErr>>

VARIABLES
    ctxDone        \* the context given to runServer has been cancelled

vars == <<serverVars, invokeVars, responseVars, requestVars, handlerVars,
          templateVars, apiVars, innerVars, eventVars, ctxDone>>

notServer == <<invokeVars, responseVars, requestVars, handlerVars,
               templateVars, apiVars, innerVars, eventVars, ctxDone>>

notInvoke == <<serverVars, responseVars, requestVars, handlerVars,
               templateVars, apiVars, innerVars, eventVars, ctxDone>>

notResponse == <<serverVars, invokeVars, requestVars, handlerVars,
                 templateVars, apiVars, innerVars, eventVars, ctxDone>>

notRequest == <<serverVars, invokeVars, responseVars, handlerVars,
                templateVars, apiVars, innerVars, eventVars, ctxDone>>

notHandler == <<serverVars, invokeVars, responseVars, requestVars,
                templateVars, apiVars, innerVars, eventVars, ctxDone>>

notTemplate == <<serverVars, invokeVars, responseVars, requestVars,
                 handlerVars,
                 innerVars, eventVars, ctxDone>>

notInner == <<serverVars, invokeVars, responseVars, requestVars,
              handlerVars, templateVars, apiVars, eventVars, ctxDone>>

notEvent == <<serverVars, invokeVars, responseVars, requestVars,
              handlerVars, templateVars, apiVars, innerVars, ctxDone>>

(* The state of the server's variables in a specification that does not    *)
(* run the server.                                                         *)
ServerOff ==
    /\ mainPc = "off"
    /\ watcherPc = "off"
    /\ quit = 0
    /\ signals = 0
    /\ inShutdown = FALSE
    /\ listener = "none"
    /\ inflight = {}
    /\ completed = {}
    /\ watcherErr = "none"
    /\ result = "none"
    /\ acceptedLate = FALSE
    /\ abandoned = {}
    /\ listenFailed = "no"
    /\ ctxDone = FALSE

(***************************************************************************)
(* Data: byte strings, JSON values and the messages of the RPC             *)
(*                                                                         *)
(* A byte string ([]byte) is the absent slice, a text that is not JSON, or *)
(* the JSON text of a value; a JSON value is a record of its type t and    *)
(* its content v, an object's content being a function from its keys.      *)
(***************************************************************************)
Nil == "nil"

NoPayload == [t |-> "nil", v |-> 0]

Text(s) == [t |-> "text", v |-> s]

JNull == [t |-> "null", v |-> 0]

JNum(n) == [t |-> "num", v |-> n]

JStr(s) == [t |-> "str", v |-> s]

JArr(q) == [t |-> "arr", v |-> q]

JObj(f) == [t |-> "obj", v |-> f]

(* The function g extended by key k with value x. *)
With(g, k, x) == [j \in DOMAIN g \cup {k} |-> IF j = k THEN x ELSE g[j]]

EmptyMap == <<>>

(* messages.InvokeResponse: Payload and Error (its message), both absent   *)
(* in the zero value.                                                      *)
ZeroResponse == [Payload |-> NoPayload, Error |-> Nil]

(* net/http's response writer before anything is written: header is the   *)
(* map Header() returns, sent the headers that went out with the status.   *)
NewWriter ==
    [wroteHeader |-> FALSE, status |-> 0, header |-> EmptyMap,
     sent |-> EmptyMap, body |-> ""]

(* The state of the response translator's variables in a specification     *)
(* that does not run it.                                                   *)
ResponseOff ==
    /\ respPc = "off"
    /\ invokeResponse = ZeroResponse
    /\ writeOK = TRUE
    /\ w = NewWriter
    /\ rhrErr = Nil

(* An http.Request with nothing in it. *)
NoRequest ==
    [Method |-> "", Path |-> "", RawQuery |-> <<>>, Header |-> EmptyMap,
     PathValues |-> EmptyMap, Body |-> "", BodyOK |-> TRUE,
     MarshalOK |-> TRUE]

(* No route and no request. *)
NoMatch ==
    [route |-> "", keys |-> <<>>, method |-> "", path |-> "",
     values |-> EmptyMap, body |-> "", segs |-> <<>>, reqSegs |-> <<>>]

(* The state of the request translator's variables in a specification that *)
(* does not run it.                                                        *)
RequestOff ==
    /\ reqPc = "off"
    /\ wire = <<>>
    /\ req = NoRequest
    /\ eventByte = NoPayload
    /\ parseErr = Nil
    /\ matched = NoMatch

(* The state of parseTemplate's and RunLambdaAPI's variables in a          *)
(* specification that runs neither.                                        *)
TemplateOff ==
    /\ tplPc = "off"
    /\ template = [t |-> "none"]
    /\ routes = <<>>
    /\ tplErr = Nil
    /\ apiPc = "off"
    /\ apiErr = Nil

(* The state of parseInnerJSON's variables in a specification that does    *)
(* not apply it.                                                           *)
InnerOff ==
    /\ innerPc = "off"
    /\ innerData = EmptyMap
    /\ innerResult = EmptyMap
    /\ innerTwice = EmptyMap

(* What Invoke has returned while it has not returned. *)
NoReturn == [resp |-> ZeroResponse, err |-> "pending"]

(* The state of RunLambdaEvent's variables in a specification that does    *)
(* not run it.                                                             *)
EventOff ==
    /\ evPc = "off"
    /\ evEvent = ""
    /\ evParseJSON = FALSE
    /\ evData = NoPayload
    /\ evCalls = 0
    /\ evRet = NoReturn
    /\ evErr = Nil
    /\ evLog = <<>>

(* The requests the handlers of the model serve at a time. *)
Handlers == {"h1", "h2"}

(* The state of the handlers' variables in a specification that serves no  *)
(* request.                                                                *)
HandlerOff ==
    /\ parseJSON = FALSE
    /\ hPc = [h \in Handlers |-> "off"]
    /\ hReq = [h \in Handlers |-> NoRequest]
    /\ hConn = [h \in Handlers |-> TRUE]
    /\ hEvent = [h \in Handlers |-> NoPayload]
    /\ hCalls = [h \in Handlers |-> 0]
    /\ hRet = [h \in Handlers |-> NoReturn]
    /\ hW = [h \in Handlers |-> NewWriter]
    /\ hLog = [h \in Handlers |-> <<>>]

(* The state of the client's variables in a specification that makes no    *)
(* invocation.                                                             *)
InvokeOff ==
    /\ callPc = <<>>
    /\ invocation = <<>>
    /\ invocations = 0
    /\ request = <<>>
    /\ conns = <<>>
    /\ client = <<>>
    /\ response = <<>>
    /\ ret = <<>>
    /\ dials = <<>>
    /\ rcalls = <<>>
    /\ failure = <<>>
    /\ executionLimit = 0
    /\ dispatched = <<>>
    /\ overdue = <<>>

(***************************************************************************)
(* runServer                                                               *)
(***************************************************************************)
InitServer ==
    /\ mainPc = "init"
    /\ watcherPc = "notStarted"
    /\ quit = 0
    /\ signals = 0
    /\ inShutdown = FALSE
    /\ listener = "none"
    /\ inflight = {}
    /\ completed = {}
    /\ watcherErr = "none"
    /\ result = "none"
    /\ acceptedLate = FALSE
    /\ abandoned = {}
    /\ listenFailed = "no"
    /\ ctxDone = FALSE
    /\ InvokeOff
    /\ ResponseOff
    /\ RequestOff
    /\ HandlerOff
    /\ TemplateOff
    /\ InnerOff
    /\ EventOff

(* The pattern router.Handle is given for a route (line 630): the method,  *)
(* a space and the path.                                                   *)
PatternOf(route) == <<route.method, route.path>>

(* ServeMux.Handle panics when the pattern conflicts with one registered   *)
(* before it; a pattern conflicts with itself.                             *)
Conflicts(rs) ==
    \E i, j \in DOMAIN rs : i < j /\ PatternOf(rs[i]) = PatternOf(rs[j])

(* Routes are registered, the signals are routed to quit and the watcher   *)
(* is started, all before ListenAndServe is called.  A panic of            *)
(* router.Handle is recovered nowhere and ends the process.                *)
Setup ==
    /\ mainPc = "init"
    /\ IF Conflicts(routes)
       THEN /\ mainPc' = "panicked"
            /\ UNCHANGED watcherPc
       ELSE /\ mainPc' = "listen"
            /\ watcherPc' = "waitQuit"
    /\ UNCHANGED <<quit, signals, inShutdown, listener, inflight, completed,
                   watcherErr, result, acceptedLate, abandoned, listenFailed>>
    /\ UNCHANGED notServer

(* The operating system delivers SIGINT or SIGTERM.  Before signal.Notify  *)
(* the signal ends the process, which is outside runServer.                *)
Signal ==
    /\ mainPc \notin {"init", "panicked"}
    /\ signals < MaxSignals
    /\ signals' = signals + 1
    /\ quit' = IF quit < QuitCap THEN quit + 1 ELSE quit
    /\ UNCHANGED <<mainPc, watcherPc, inShutdown, listener, inflight,
                   completed, watcherErr, result, acceptedLate, abandoned,
                   listenFailed>>
    /\ UNCHANGED notServer

(* <-quit *)
WatcherQuit ==
    /\ watcherPc = "waitQuit"
    /\ quit > 0
    /\ quit' = quit - 1
    /\ watcherPc' = "gotQuit"
    /\ UNCHANGED <<mainPc, signals, inShutdown, listener, inflight, completed,
                   watcherErr, result, acceptedLate, abandoned, listenFailed>>
    /\ UNCHANGED notServer

(* server.Shutdown(ctx) begins: the flag is set and the listener that      *)
(* Serve tracks is closed.  A listener bound but not yet tracked is left   *)
(* to Serve, which closes it when it finds the flag set.                   *)
ShutdownBegin ==
    /\ watcherPc = "gotQuit"
    /\ watcherPc' = "shutdown"
    /\ inShutdown' = TRUE
    /\ listener' = IF mainPc = "serving" /\ listener = "open"
                   THEN "closed" ELSE listener
    /\ UNCHANGED <<mainPc, quit, signals, inflight, completed, watcherErr,
                   result, acceptedLate, abandoned, listenFailed>>
    /\ UNCHANGED notServer

(* What the watcher returns when Shutdown returns nil. *)
ShutdownDoneErr == "nil"

(* The watcher logging Shutdown's error and returning nil. *)
ShutdownForcedSwallowed == "nil"

(* What the watcher returns when Shutdown returns the context's error. *)
ShutdownForcedErr == "forced"

(* Shutdown returning nil at once, as Close() does, with connections      *)
(* still active.                                                           *)
ShutdownIdleNoWait ==
    /\ watcherPc = "shutdown"
    /\ watcherPc' = "done"
    /\ watcherErr' = ShutdownDoneErr
    /\ UNCHANGED <<mainPc, quit, signals, inShutdown, listener, inflight,
                   completed, result, acceptedLate, abandoned, listenFailed>>
    /\ UNCHANGED notServer

(* Shutdown returns nil: no connection is active. *)
ShutdownIdle ==
    /\ watcherPc = "shutdown"
    /\ inflight = {}
    /\ watcherPc' = "done"
    /\ watcherErr' = ShutdownDoneErr
    /\ UNCHANGED <<mainPc, quit, signals, inShutdown, listener, inflight,
                   completed, result, acceptedLate, abandoned, listenFailed>>
    /\ UNCHANGED notServer

(* The context of shutdownDuration, a child of the caller's, is done with  *)
(* a connection still active: Shutdown returns the context's error.        *)
ShutdownTimeout ==
    /\ watcherPc = "shutdown"
    /\ inflight # {}
    /\ watcherPc' = "done"
    /\ watcherErr' = ShutdownForcedErr
    /\ abandoned' = inflight
    /\ UNCHANGED <<mainPc, quit, signals, inShutdown, listener, inflight,
                   completed, result, acceptedLate, listenFailed>>
    /\ UNCHANGED notServer

(* ListenAndServe finds the server shutting down before it binds. *)
ListenShuttingDown ==
    /\ mainPc = "listen"
    /\ inShutdown
    /\ mainPc' = "wait"
    /\ UNCHANGED <<watcherPc, quit, signals, inShutdown, listener, inflight,
                   completed, watcherErr, result, acceptedLate, abandoned,
                   listenFailed>>
    /\ UNCHANGED notServer

(* ListenAndServe finds the server not shutting down and goes on to bind.  *)
(* Shutdown can begin between this test and net.Listen.                    *)
ListenCheck ==
    /\ mainPc = "listen"
    /\ ~inShutdown
    /\ mainPc' = "binding"
    /\ UNCHANGED <<watcherPc, quit, signals, inShutdown, listener, inflight,
                   completed, watcherErr, result, acceptedLate, abandoned,
                   listenFailed>>
    /\ UNCHANGED notServer

(* net.Listen succeeds. *)
ListenBind ==
    /\ mainPc = "binding"
    /\ listener' = "open"
    /\ mainPc' = "bound"
    /\ UNCHANGED <<watcherPc, quit, signals, inShutdown, inflight, completed,
                   watcherErr, result, acceptedLate, abandoned, listenFailed>>
    /\ UNCHANGED notServer

(* runServer joining the errgroup before it reports the listener's error. *)
OnListenErrorJoinFirst == [pc |-> "wait", result |-> "none"]

(* Where runServer goes, and with which result, when ListenAndServe        *)
(* returns an error that is not ErrServerClosed.                           *)
OnListenError == [pc |-> "returned", result |-> "listenErr"]

(* net.Listen fails (the port is taken, say). *)
ListenBindFail ==
    /\ mainPc = "binding"
    /\ listenFailed' = "bind"
    /\ mainPc' = OnListenError.pc
    /\ result' = OnListenError.result
    /\ UNCHANGED <<watcherPc, quit, signals, inShutdown, listener, inflight,
                   completed, watcherErr, acceptedLate, abandoned>>
    /\ UNCHANGED notServer

(* Serve going into its accept loop without looking at the shutdown flag. *)
ServeTrackUnchecked ==
    /\ mainPc = "bound"
    /\ mainPc' = "serving"
    /\ UNCHANGED <<watcherPc, quit, signals, inShutdown, listener, inflight,
                   completed, watcherErr, result, acceptedLate, abandoned,
                   listenFailed>>
    /\ UNCHANGED notServer

(* Serve registers the listener, unless the server is shutting down. *)
ServeTrack ==
    /\ mainPc = "bound"
    /\ IF inShutdown
       THEN /\ listener' = "closed"
            /\ mainPc' = "wait"
       ELSE /\ listener' = listener
            /\ mainPc' = "serving"
    /\ UNCHANGED <<watcherPc, quit, signals, inShutdown, inflight, completed,
                   watcherErr, result, acceptedLate, abandoned, listenFailed>>
    /\ UNCHANGED notServer

(* The accept loop taking connections from the moment the port is bound. *)
CanAcceptOnceBound == listener = "open"

(* Whether the accept loop can take a connection. *)
CanAccept == mainPc = "serving" /\ listener = "open"

(* The accept loop takes a connection and starts its handler. *)
Accept(r) ==
    /\ CanAccept
    /\ r \notin inflight \cup completed
    /\ inflight' = inflight \cup {r}
    /\ acceptedLate' = (acceptedLate \/ inShutdown)
    /\ UNCHANGED <<mainPc, watcherPc, quit, signals, inShutdown, listener,
                   completed, watcherErr, result, abandoned, listenFailed>>
    /\ UNCHANGED notServer

(* The handler of a request returns. *)
Complete(r) ==
    /\ r \in inflight
    /\ inflight' = inflight \ {r}
    /\ completed' = completed \cup {r}
    /\ UNCHANGED <<mainPc, watcherPc, quit, signals, inShutdown, listener,
                   watcherErr, result, acceptedLate, abandoned, listenFailed>>
    /\ UNCHANGED notServer

(* Accept fails on the listener Shutdown closed: ErrServerClosed. *)
ServeClosed ==
    /\ mainPc = "serving"
    /\ listener = "closed"
    /\ mainPc' = "wait"
    /\ UNCHANGED <<watcherPc, quit, signals, inShutdown, listener, inflight,
                   completed, watcherErr, result, acceptedLate, abandoned,
                   listenFailed>>
    /\ UNCHANGED notServer

(* Accept fails for a reason of its own while the server is not shutting   *)
(* down; Serve closes the listener on its way out.                         *)
ServeFail ==
    /\ mainPc = "serving"
    /\ listener = "open"
    /\ listener' = "closed"
    /\ listenFailed' = "serve"
    /\ mainPc' = OnListenError.pc
    /\ result' = OnListenError.result
    /\ UNCHANGED <<watcherPc, quit, signals, inShutdown, inflight, completed,
                   watcherErr, acceptedLate, abandoned>>
    /\ UNCHANGED notServer

(* Whether wg.Wait() can return: the only goroutine of the group is done. *)
WaitOver == watcherPc = "done"

(* wg.Wait() returns the watcher's error, which runServer returns. *)
WaitReturn ==
    /\ mainPc = "wait"
    /\ WaitOver
    /\ mainPc' = "returned"
    /\ result' = watcherErr
    /\ UNCHANGED <<watcherPc, quit, signals, inShutdown, listener, inflight,
                   completed, watcherErr, acceptedLate, abandoned,
                   listenFailed>>
    /\ UNCHANGED notServer

(* The caller cancels the context it gave to RunLambdaAPI.  runServer      *)
(* hands it to errgroup.WithContext (line 641) and, through the child that *)
(* returns, to context.WithTimeout (line 654); nothing waits on its Done.  *)
Cancel ==
    /\ mainPc \notin {"off", "panicked", "returned"}
    /\ ~ctxDone
    /\ ctxDone' = TRUE
    /\ UNCHANGED serverVars
    /\ UNCHANGED <<invokeVars, responseVars, requestVars, handlerVars,
                   templateVars, apiVars, innerVars, eventVars>>

NextServer ==
    \/ Setup
    \/ Cancel
    \/ Signal
    \/ WatcherQuit
    \/ ShutdownBegin
    \/ ShutdownIdle
    \/ ShutdownTimeout
    \/ ListenShuttingDown
    \/ ListenCheck
    \/ ListenBind
    \/ ListenBindFail
    \/ ServeTrack
    \/ \E r \in Requests : Accept(r)
    \/ \E r \in Requests : Complete(r)
    \/ ServeClosed
    \/ ServeFail
    \/ WaitReturn

(* The goroutines of the program are scheduled, and the shutdown context's *)
(* timer fires; signals, connections, handlers' completion and listener    *)
(* failures are up to the environment.                                     *)
FairServer ==
    /\ WF_vars(WatcherQuit)
    /\ WF_vars(ShutdownBegin)
    /\ WF_vars(ShutdownIdle)
    /\ WF_vars(ShutdownTimeout)
    /\ WF_vars(ListenShuttingDown)
    /\ WF_vars(ListenCheck)
    /\ WF_vars(ListenBind \/ ListenBindFail)
    /\ WF_vars(ServeTrack)
    /\ WF_vars(ServeClosed)
    /\ WF_vars(WaitReturn)

SpecServer == InitServer /\ [][NextServer]_vars /\ FairServer

(***************************************************************************)
(* Claims about runServer                                                  *)
(***************************************************************************)

(* The listener did not fail: runServer is on the signal's path. *)
OnSignalPath == listenFailed = "no"

C2_ForcedShutdown ==
    /\ [](mainPc = "returned" /\ OnSignalPath /\ abandoned # {}
             => result = "forced")
    /\ (abandoned # {} /\ OnSignalPath
           ~> mainPc = "returned" /\ result = "forced")

(* C2 witness: runServer has returned the forced-shutdown error while the  *)
(* request it abandoned is still in flight.                                *)
C2_Witness ==
    /\ mainPc = "returned"
    /\ result = "forced"
    /\ abandoned # {}
    /\ abandoned \subseteq inflight

(* C3: when ListenAndServe fails to bind, or fails later with an error     *)
(* that is not ErrServerClosed, runServer has returned that error in the   *)
(* same step, with no signal needed; after a bind failure no request has   *)
(* been accepted.                                                          *)
C3_ListenError ==
    /\ (listenFailed # "no" => mainPc = "returned" /\ result = "listenErr")
    /\ (listenFailed = "bind" => inflight \cup completed = {})

(* C3 witness: the bind failed and runServer returned the error with no    *)
(* signal sent and the watcher still waiting for one.                      *)
C3_Witness ==
    /\ listenFailed = "bind"
    /\ result = "listenErr"
    /\ signals = 0
    /\ watcherPc = "waitQuit"

(* C22: if the context given to RunLambdaAPI is cancelled while the server *)
(* is serving, the server shuts down and runServer, and with it            *)
(* RunLambdaAPI, returns.                                                  *)
C22_ContextCancelStopsServer ==
    (ctxDone /\ mainPc = "serving") ~> (mainPc = "returned")

(* C23: what runServer returns is fixed by which event came first: a       *)
(* listener failure before any signal gives the listener's error; once a   *)
(* signal has come with the listener not failed, and all the more once     *)
(* Shutdown has begun, the listener's error is never returned and the      *)
(* result is that of the shutdown; nil is returned only after a signal and *)
(* a Shutdown that returned nil.                                           *)
C23_FirstEventDecides ==
    /\ [][(signals = 0 /\ listenFailed = "no" /\ listenFailed' # "no")
             => result' = "listenErr"]_vars
    /\ [][(signals > 0 /\ listenFailed = "no")
             => (listenFailed' = "no" /\ result' # "listenErr")]_vars
    /\ [][inShutdown => result' = result \/ result' \in {"nil", "forced"}]_vars
    /\ [](result = "nil" => signals > 0 /\ watcherErr = "nil")

(* The place of the server in its lifecycle, as an index into Idle,        *)
(* Starting, Serving, ShuttingDown, Stopped: Idle until runServer has set  *)
(* up, Stopped once runServer is over, ShuttingDown from the call of       *)
(* Shutdown, Serving in the accept loop, Starting otherwise.               *)
Lifecycle ==
    IF mainPc \in {"off", "init"} THEN 1
    ELSE IF mainPc \in {"returned", "panicked"} THEN 5
    ELSE IF inShutdown THEN 4
    ELSE IF mainPc = "serving" THEN 3
    ELSE 2

(* C24: the lifecycle only moves forward along Idle, Starting, Serving,    *)
(* ShuttingDown, Stopped, Stopped is final, and a request is accepted only *)
(* in Serving.                                                             *)
C24_LifecycleForward ==
    /\ [][Lifecycle' >= Lifecycle]_vars
    /\ [][Lifecycle = 5 => Lifecycle' = 5]_vars
    /\ [][inflight' \ inflight # {} => Lifecycle = 3]_vars

(* C24 witness: runServer has returned after a Shutdown, having accepted   *)
(* and completed every request while it served.                            *)
C24_Witness ==
    /\ Lifecycle = 5
    /\ inShutdown
    /\ completed = Requests
    /\ listener = "closed"

(* runServer has registered the signals and its listener is not yet        *)
(* accepting.                                                              *)
BeforeAccepting == mainPc \in {"listen", "binding", "bound"}

(* No request was accepted. *)
NothingAccepted == inflight \cup completed = {}

(* C30 as stated: after a signal that came between the registration and    *)
(* the accepting, the shutdown is performed, no request is ever accepted   *)
(* and runServer returns nil.                                              *)
C30_EarlySignalStopsBeforeAccepting ==
    [](signals > 0 /\ BeforeAccepting =>
          /\ <>inShutdown
          /\ []NothingAccepted
          /\ <>(mainPc = "returned" /\ result = "nil"))

(* C30: a signal that came between the registration and the accepting is   *)
(* not lost: Shutdown is called unless runServer returns first, and        *)
(* runServer returns.  If Shutdown begins before the listener accepts, no  *)
(* request is ever accepted, and runServer returns nil unless the port     *)
(* could not be bound.                                                     *)
C30_EarlySignalNotLost ==
    /\ [](signals > 0 /\ BeforeAccepting =>
             /\ <>(inShutdown \/ mainPc = "returned")
             /\ <>(mainPc = "returned"))
    /\ [](inShutdown /\ BeforeAccepting =>
             /\ []NothingAccepted
             /\ <>(mainPc = "returned"
                      /\ result = IF listenFailed = "no"
                                  THEN "nil" ELSE "listenErr"))

(* C30 witness: the signal came so early that ListenAndServe found the     *)
(* server shutting down; nothing was bound or accepted and runServer       *)
(* returned nil.                                                           *)
C30_Witness ==
    /\ mainPc = "returned"
    /\ result = "nil"
    /\ signals > 0
    /\ inShutdown
    /\ listener = "none"
    /\ NothingAccepted

(***************************************************************************)
(* LambdaRPCClient.Invoke (src/invoke.go 46-81)                            *)
(*                                                                         *)
(* Callers are goroutines that call Invoke, each one invocation at a time. *)
(* rpc.Dial either connects or fails; client.Call sends the one request on *)
(* the caller's connection and blocks until the reply, an error reply of   *)
(* the server (unknown service, unknown method) or a transport error.  On  *)
(* a transport error the codec may already have decoded part of the reply  *)
(* into the variable Call was given.                                       *)
(***************************************************************************)
Callers == {"c1", "c2"}

(* The payloads of the model, opaque to the client: the bytes the test of  *)
(* Invoke sends and receives.                                              *)
Payloads == {Text("response")}

EventBytes == {Text("test")}

RemoteErrors == {"errA"}

(* The replies the remote function gives in the client's model. *)
InvokeResponses ==
    [Payload : Payloads \cup {NoPayload}, Error : RemoteErrors \cup {Nil}]

CallFailures == {"noService", "noMethod", "transport"}

(* Nanoseconds in a second (time.Second). *)
NanosPerSecond == 1000000000

(* t.Unix() and t.Nanosecond() of an instant t, in nanoseconds since the   *)
(* epoch.                                                                  *)
Unix(t) == t \div NanosPerSecond

Nanosecond(t) == t % NanosPerSecond

(* messages.InvokeRequest_Timestamp of an instant (lines 51-54). *)
Timestamp(t) == [Seconds |-> Unix(t), Nanos |-> Nanosecond(t)]

(* The deadline as the limit itself, counted from the epoch. *)
DeadlineRelative(now, limit) == limit

(* time.Now().Add(l.executionLimit) (line 47) *)
DeadlineOf(now, limit) == now + limit

(* The execution limits and the instants of the model, in nanoseconds:     *)
(* sums fall on both sides of a whole second.                              *)
ExecutionLimits == {1, 500000000}

Instants == {999999999, 1500000000}

InitInvoke ==
    /\ ServerOff
    /\ ResponseOff
    /\ RequestOff
    /\ HandlerOff
    /\ TemplateOff
    /\ InnerOff
    /\ EventOff
    /\ callPc = [c \in Callers |-> "idle"]
    /\ invocation = [c \in Callers |-> 0]
    /\ invocations = 0
    /\ request = [c \in Callers |->
                    [Payload |-> NoPayload, Deadline |-> Timestamp(0)]]
    /\ executionLimit \in ExecutionLimits
    /\ dispatched = [c \in Callers |-> 0]
    /\ overdue = [c \in Callers |-> FALSE]
    /\ conns = <<>>
    /\ client = [c \in Callers |-> 0]
    /\ response = [c \in Callers |-> ZeroResponse]
    /\ ret = [c \in Callers |-> NoReturn]
    /\ dials = [c \in Callers |-> 0]
    /\ rcalls = [c \in Callers |-> 0]
    /\ failure = [c \in Callers |-> "none"]

(* Invoke is called: the request is built (lines 47-55).  A caller that    *)
(* has a result calls again.                                               *)
InvokeStart(c, data, now) ==
    /\ callPc[c] \in {"idle", "returned"}
    /\ invocations < MaxInvokes
    /\ invocations' = invocations + 1
    /\ invocation' = [invocation EXCEPT ![c] = invocations + 1]
    /\ dispatched' = [dispatched EXCEPT ![c] = now]
    /\ overdue' = [overdue EXCEPT ![c] = FALSE]
    /\ request' = [request EXCEPT ![c] =
                     [Payload |-> data,
                      Deadline |-> Timestamp(DeadlineOf(now,
                                                        executionLimit))]]
    /\ callPc' = [callPc EXCEPT ![c] = "dial"]
    /\ client' = [client EXCEPT ![c] = 0]
    /\ response' = [response EXCEPT ![c] = ZeroResponse]
    /\ ret' = [ret EXCEPT ![c] = NoReturn]
    /\ dials' = [dials EXCEPT ![c] = 0]
    /\ rcalls' = [rcalls EXCEPT ![c] = 0]
    /\ failure' = [failure EXCEPT ![c] = "none"]
    /\ UNCHANGED <<conns, executionLimit>>
    /\ UNCHANGED notInvoke

(* rpc.Dial handing out a connection that is already there: a pool. *)
DialPooled(cs, c) ==
    IF cs = <<>>
    THEN <<[owner |-> c, inv |-> invocation[c], open |-> TRUE, users |-> {}]>>
    ELSE [cs EXCEPT ![Len(cs)].open = TRUE]

(* The connections after rpc.Dial connected for caller c: a new one, last. *)
Dial(cs, c) ==
    Append(cs, [owner |-> c, inv |-> invocation[c], open |-> TRUE,
                users |-> {}])

(* rpc.Dial connects (line 57); the close is deferred (lines 66-68). *)
DialOK(c) ==
    /\ callPc[c] = "dial"
    /\ conns' = Dial(conns, c)
    /\ client' = [client EXCEPT ![c] = Len(conns')]
    /\ dials' = [dials EXCEPT ![c] = @ + 1]
    /\ callPc' = [callPc EXCEPT ![c] = "call"]
    /\ UNCHANGED <<executionLimit, dispatched, overdue>>
    /\ UNCHANGED <<invocation, invocations, request, response, ret, rcalls,
                   failure>>
    /\ UNCHANGED notInvoke

(* rpc.Dial fails: Invoke returns at once (lines 58-64). *)
DialFail(c) ==
    /\ callPc[c] = "dial"
    /\ dials' = [dials EXCEPT ![c] = @ + 1]
    /\ failure' = [failure EXCEPT ![c] = "dial"]
    /\ ret' = [ret EXCEPT ![c] = [resp |-> ZeroResponse, err |-> "dial"]]
    /\ callPc' = [callPc EXCEPT ![c] = "returned"]
    /\ UNCHANGED <<executionLimit, dispatched, overdue>>
    /\ UNCHANGED <<invocation, invocations, request, conns, client, response,
                   rcalls>>
    /\ UNCHANGED notInvoke

(* client.Call sends the request on the caller's connection (line 72). *)
CallSend(c) ==
    /\ callPc[c] = "call"
    /\ conns' = [conns EXCEPT ![client[c]].users = @ \cup {invocation[c]}]
    /\ rcalls' = [rcalls EXCEPT ![c] = @ + 1]
    /\ callPc' = [callPc EXCEPT ![c] = "awaiting"]
    /\ UNCHANGED <<executionLimit, dispatched, overdue>>
    /\ UNCHANGED <<invocation, invocations, request, client, response, ret,
                   dials, failure>>
    /\ UNCHANGED notInvoke

(* client.Call returns nil: the reply is in response, which Invoke returns *)
(* (line 80) once the deferred close has run.                              *)
CallReply(c, reply) ==
    /\ callPc[c] = "awaiting"
    /\ response' = [response EXCEPT ![c] = reply]
    /\ ret' = [ret EXCEPT ![c] = [resp |-> reply, err |-> Nil]]
    /\ callPc' = [callPc EXCEPT ![c] = "defer"]
    /\ UNCHANGED <<executionLimit, dispatched, overdue>>
    /\ UNCHANGED <<invocation, invocations, request, conns, client, dials,
                   rcalls, failure>>
    /\ UNCHANGED notInvoke

(* Invoke giving up on the call when the deadline it transmitted passes. *)
EnforcesDeadlineLocally == TRUE

(* Whether Invoke bounds the wait for the reply: client.Call (line 72)     *)
(* takes no context and no timeout, and the connection has no deadline.    *)
EnforcesDeadline == FALSE

(* The deadline the caller transmitted passes while client.Call waits for  *)
(* the reply.                                                              *)
DeadlinePasses(c) ==
    /\ callPc[c] = "awaiting"
    /\ ~overdue[c]
    /\ overdue' = [overdue EXCEPT ![c] = TRUE]
    /\ IF EnforcesDeadline
       THEN /\ failure' = [failure EXCEPT ![c] = "timeout"]
            /\ ret' = [ret EXCEPT ![c] =
                          [resp |-> ZeroResponse, err |-> "timeout"]]
            /\ callPc' = [callPc EXCEPT ![c] = "defer"]
       ELSE UNCHANGED <<failure, ret, callPc>>
    /\ UNCHANGED <<executionLimit, dispatched>>
    /\ UNCHANGED <<invocation, invocations, request, conns, client, response,
                   dials, rcalls>>
    /\ UNCHANGED notInvoke

(* Invoke returning its local variable when the call failed. *)
ReplyOnCallErrorLocal(local) == local

(* The reply Invoke returns when client.Call failed (line 74). *)
ReplyOnCallError(local) == ZeroResponse

(* client.Call returns an error (lines 73-78); partial is what the codec   *)
(* left in response.                                                       *)
CallError(c, kind, partial) ==
    /\ callPc[c] = "awaiting"
    /\ kind # "transport" => partial = ZeroResponse
    /\ response' = [response EXCEPT ![c] = partial]
    /\ failure' = [failure EXCEPT ![c] = kind]
    /\ ret' = [ret EXCEPT ![c] =
                  [resp |-> ReplyOnCallError(partial), err |-> kind]]
    /\ callPc' = [callPc EXCEPT ![c] = "defer"]
    /\ UNCHANGED <<executionLimit, dispatched, overdue>>
    /\ UNCHANGED <<invocation, invocations, request, conns, client, dials,
                   rcalls>>
    /\ UNCHANGED notInvoke

(* The close running only when the call succeeded: written after the       *)
(* error check instead of deferred.                                        *)
ClosesOnSuccessOnly(err) == err = Nil

(* Whether the connection is closed on the way out of Invoke, given the    *)
(* error Invoke returns: the close is deferred, so always.                 *)
ClosesOnReturn(err) == TRUE

(* The deferred client.Close() runs and Invoke returns (lines 66-68). *)
DeferClose(c) ==
    /\ callPc[c] = "defer"
    /\ conns' = [conns EXCEPT ![client[c]].open =
                    IF ClosesOnReturn(ret[c].err) THEN FALSE ELSE @]
    /\ callPc' = [callPc EXCEPT ![c] = "returned"]
    /\ UNCHANGED <<executionLimit, dispatched, overdue>>
    /\ UNCHANGED <<invocation, invocations, request, client, response, ret,
                   dials, rcalls, failure>>
    /\ UNCHANGED notInvoke

NextInvoke ==
    \/ \E c \in Callers, data \in EventBytes, now \in Instants :
          InvokeStart(c, data, now)
    \/ \E c \in Callers : DialOK(c)
    \/ \E c \in Callers : DialFail(c)
    \/ \E c \in Callers : CallSend(c)
    \/ \E c \in Callers, reply \in InvokeResponses : CallReply(c, reply)
    \/ \E c \in Callers, kind \in CallFailures, partial \in InvokeResponses :
          CallError(c, kind, partial)
    \/ \E c \in Callers : DeferClose(c)

SpecInvoke == InitInvoke /\ [][NextInvoke]_vars

(***************************************************************************)
(* Claims about Invoke                                                     *)
(***************************************************************************)

(* The connections the caller's current invocation opened. *)
ConnsOf(c) == {i \in DOMAIN conns : conns[i].inv = invocation[c]}

(* C4: an invocation whose dial succeeded has opened exactly one           *)
(* connection; a connection carries the call of the invocation that opened *)
(* it and no other; and once Invoke has returned, with or without error,   *)
(* its connection is closed, so the connections open at any moment are     *)
(* those of invocations still under way.                                   *)
C4_ConnectionPerCall ==
    /\ \A c \in Callers :
          /\ callPc[c] \in {"call", "awaiting", "defer"}
                => Cardinality(ConnsOf(c)) = 1 /\ ConnsOf(c) = {client[c]}
          /\ callPc[c] = "returned"
                => /\ Cardinality(ConnsOf(c)) =
                        (IF failure[c] = "dial" THEN 0 ELSE 1)
                   /\ \A i \in ConnsOf(c) : ~conns[i].open
    /\ \A i \in DOMAIN conns :
          /\ conns[i].users \subseteq {conns[i].inv}
          /\ conns[i].open
                => /\ callPc[conns[i].owner] \in {"call", "awaiting", "defer"}
                   /\ client[conns[i].owner] = i

(* C4 witness: two invocations have returned, one with the reply and one   *)
(* with a call error, each having opened its own connection, both closed.  *)
C4_Witness ==
    /\ \A c \in Callers : callPc[c] = "returned"
    /\ \E c, d \in Callers : ret[c].err = Nil /\ ret[d].err \in CallFailures
    /\ Len(conns) >= 2
    /\ \A i \in DOMAIN conns : ~conns[i].open /\ conns[i].users = {conns[i].inv}

(* C5: when the dial or the call of an invocation has failed, Invoke       *)
(* returns a non-nil error with the zero reply, whatever the transport     *)
(* left in the reply, and the invocation has dialled once and called at    *)
(* most once (not at all after a failed dial).                             *)
C5_FailureIsTerminal ==
    \A c \in Callers :
        /\ dials[c] <= 1 /\ rcalls[c] <= 1
        /\ failure[c] = "dial" => rcalls[c] = 0
        /\ failure[c] # "none"
              => /\ callPc[c] \in {"defer", "returned"}
                 /\ ret[c].err = failure[c]
                 /\ ret[c].err # Nil
                 /\ ret[c].resp = ZeroResponse

(* C5 witness: a call failed in the transport with the reply half decoded, *)
(* and Invoke has returned the error with the zero reply.                  *)
C5_Witness ==
    \E c \in Callers :
        /\ callPc[c] = "returned"
        /\ failure[c] = "transport"
        /\ response[c] # ZeroResponse
        /\ ret[c] = [resp |-> ZeroResponse, err |-> "transport"]

(* The deadline of a request, in nanoseconds since the epoch. *)
DeadlineNanos(c) ==
    request[c].Deadline.Seconds * NanosPerSecond + request[c].Deadline.Nanos

(* C13: the deadline sent with an invocation is the instant of dispatch    *)
(* plus the execution limit: Seconds are its whole seconds since the       *)
(* epoch, Nanos the rest, with 0 <= Nanos < 1,000,000,000, so that         *)
(* Seconds * 1,000,000,000 + Nanos is the dispatch instant plus the limit  *)
(* in nanoseconds; it is not the limit itself.                             *)
C13_AbsoluteDeadline ==
    \A c \in Callers :
        invocation[c] # 0 =>
            /\ request[c].Deadline.Nanos >= 0
            /\ request[c].Deadline.Nanos < 1000000000
            /\ DeadlineNanos(c) = dispatched[c] + executionLimit
            /\ DeadlineNanos(c) # executionLimit

(* C13 witness: a call dispatched at 1.5 s with a limit of 0.5 s was sent  *)
(* with the deadline 2 s, 0 ns.                                            *)
C13_Witness ==
    /\ rcalls["c1"] = 1
    /\ dispatched["c1"] = 1500000000
    /\ executionLimit = 500000000
    /\ request["c1"].Deadline = [Seconds |-> 2, Nanos |-> 0]

(***************************************************************************)
(* returnHTTPResponse (src/api.go 842-873)                                 *)
(*                                                                         *)
(* net/http is modelled by its contract: Header().Set stores a value under *)
(* the canonical form of the name; the first WriteHeader fixes the status  *)
(* and the headers that go out, later ones are ignored; Write sends 200    *)
(* first when no status was written; http.Error sets Content-Type and      *)
(* X-Content-Type-Options, writes the status and then the message as a     *)
(* line.  Status codes are those WriteHeader takes with a body (it panics  *)
(* outside 100..999 and takes no body with 1xx, 204 and 304), and a reply  *)
(* names each HTTP header once, header names being case-insensitive.       *)
(***************************************************************************)
StatusInternalServerError == 500

(* textproto.CanonicalMIMEHeaderKey, on the header names of the model. *)
CanonicalKey(k) ==
    CASE k = "content-type" -> "Content-Type"
      [] k = "x-id" -> "X-Id"
      [] k = "h" -> "H"
      [] OTHER -> k

(* w.Header().Set(k, v) *)
HeaderSet(wr, k, v) == [wr EXCEPT !.header = With(@, CanonicalKey(k), v)]

(* http.Header.Get(k) on the headers that went out; "" when there is none. *)
HeaderGet(h, k) == IF CanonicalKey(k) \in DOMAIN h THEN h[CanonicalKey(k)] ELSE ""

(* w.WriteHeader(code) *)
WriteHeader(wr, code) ==
    IF wr.wroteHeader
    THEN wr
    ELSE [wr EXCEPT !.wroteHeader = TRUE, !.status = code, !.sent = wr.header]

(* w.Write(b): the writer after it and the error it returns. *)
Write(wr, b, ok) ==
    LET w1 == WriteHeader(wr, 200)
    IN IF ok
       THEN [w |-> [w1 EXCEPT !.body = @ \o b], err |-> Nil]
       ELSE [w |-> w1, err |-> "write"]

(* http.Error(w, msg, code) *)
HTTPError(wr, msg, code, ok) ==
    LET w1 == HeaderSet(wr, "Content-Type", "text/plain; charset=utf-8")
        w2 == HeaderSet(w1, "X-Content-Type-Options", "nosniff")
        w3 == WriteHeader(w2, code)
    IN Write(w3, msg \o "\n", ok).w

(* The field of genericAPIResponse a JSON key decodes into: encoding/json  *)
(* matches the tag, ignoring case.                                         *)
FieldOf(key) ==
    CASE key \in {"statusCode", "StatusCode"} -> "StatusCode"
      [] key \in {"headers", "Headers"} -> "Headers"
      [] key \in {"multiValueHeaders"} -> "MultiValueHeaders"
      [] key \in {"body", "Body"} -> "Body"
      [] key \in {"isBase64Encoded"} -> "IsBase64Encoded"
      [] OTHER -> "none"

(* The JSON value an object holds for a field, null when it holds none. *)
Member(o, field) ==
    IF \E k \in DOMAIN o : FieldOf(k) = field
    THEN o[CHOOSE k \in DOMAIN o : FieldOf(k) = field]
    ELSE JNull

(* Whether a JSON value decodes into a Go value of the type, null leaving  *)
(* the zero value.                                                         *)
IsInt(j) == j.t \in {"num", "null"}

IsString(j) == j.t \in {"str", "null"}

IsBool(j) == j.t \in {"bool", "null"}

IsStringMap(j) ==
    \/ j.t = "null"
    \/ j.t = "obj" /\ \A k \in DOMAIN j.v : IsString(j.v[k])

IsStringList(j) ==
    \/ j.t = "null"
    \/ j.t = "arr" /\ \A i \in DOMAIN j.v : IsString(j.v[i])

IsStringListMap(j) ==
    \/ j.t = "null"
    \/ j.t = "obj" /\ \A k \in DOMAIN j.v : IsStringList(j.v[k])

AsInt(j) == IF j.t = "num" THEN j.v ELSE 0

AsString(j) == IF j.t = "str" THEN j.v ELSE ""

AsStringMap(j) ==
    IF j.t = "obj" THEN [k \in DOMAIN j.v |-> AsString(j.v[k])] ELSE EmptyMap

(* genericAPIResponse{} *)
ZeroAPIResponse == [StatusCode |-> 0, Headers |-> EmptyMap, Body |-> ""]

(* json.Unmarshal(payload, &APIResponse): the error and the record. *)
DecodeReply(payload) ==
    IF payload.t \in {"nil", "text"}
    THEN [err |-> "syntax", val |-> ZeroAPIResponse]
    ELSE IF payload.t = "null"
    THEN [err |-> Nil, val |-> ZeroAPIResponse]
    ELSE IF payload.t # "obj"
    THEN [err |-> "type", val |-> ZeroAPIResponse]
    ELSE LET o == payload.v
         IN IF /\ IsInt(Member(o, "StatusCode"))
               /\ IsStringMap(Member(o, "Headers"))
               /\ IsStringListMap(Member(o, "MultiValueHeaders"))
               /\ IsString(Member(o, "Body"))
               /\ IsBool(Member(o, "IsBase64Encoded"))
            THEN [err |-> Nil,
                  val |-> [StatusCode |-> AsInt(Member(o, "StatusCode")),
                           Headers |-> AsStringMap(Member(o, "Headers")),
                           Body |-> AsString(Member(o, "Body"))]]
            ELSE [err |-> "type", val |-> ZeroAPIResponse]

(* for k, v := range APIResponse.Headers { w.Header().Set(k, v) } *)
RECURSIVE SetHeaders(_, _)
SetHeaders(wr, h) ==
    IF DOMAIN h = {}
    THEN wr
    ELSE LET k == CHOOSE x \in DOMAIN h : TRUE
         IN SetHeaders(HeaderSet(wr, k, h[k]),
                       [j \in DOMAIN h \ {k} |-> h[j]])

(* The status written without the default: 0 is left to Write's 200. *)
StatusToWriteNoDefault(code) == IF code = 0 THEN 200 ELSE code

(* The status written for a declared status code (lines 861-865). *)
StatusToWrite(code) ==
    IF code = 0 THEN StatusInternalServerError ELSE code

(* The payload's part of returnHTTPResponse (lines 851-872). *)
WritePayload(wr, resp, ok) ==
    LET d == DecodeReply(resp.Payload)
    IN IF d.err # Nil
       THEN [w |-> wr, err |-> "unmarshal"]
       ELSE LET w1 == SetHeaders(wr, d.val.Headers)
                w2 == WriteHeader(w1, StatusToWrite(d.val.StatusCode))
                wb == Write(w2, d.val.Body, ok)
            IN [w |-> wb.w, err |-> wb.err]

(* returnHTTPResponse going on to the payload after it answered the remote *)
(* error: the return of line 848 left out.                                 *)
ReturnHTTPResponseFallsThrough(wr, resp, ok) ==
    IF resp.Error # Nil
    THEN WritePayload(HTTPError(wr, resp.Error, StatusInternalServerError, ok),
                      resp, ok)
    ELSE WritePayload(wr, resp, ok)

(* returnHTTPResponse(w, invokeResponse): the writer after it and the      *)
(* error it returns.                                                       *)
ReturnHTTPResponse(wr, resp, ok) ==
    IF resp.Error # Nil
    THEN [w |-> HTTPError(wr, resp.Error, StatusInternalServerError, ok),
          err |-> Nil]
    ELSE WritePayload(wr, resp, ok)

(* The replies of the model. *)
ReplyHeaderNames == {"content-type", "X-Id", "Cache"}

HeaderValues == {"a", "b"}

ReplyHeaderMaps ==
    UNION {[S -> HeaderValues] :
             S \in {T \in SUBSET ReplyHeaderNames :
                      Cardinality(T) <= MaxReplyHeaders}}

(* The object with the given <<key, value>> members. *)
ObjectOf(members) ==
    JObj([k \in {m[1] : m \in members} |->
            (CHOOSE m \in members : m[1] = k)[2]])

StatusMembers ==
    {{}} \cup {{<<"statusCode", j>>} :
                 j \in {JNull, JNum(0), JNum(200), JNum(404), JStr("200")}}
         \cup {{<<"StatusCode", JNum(201)>>}}

HeadersMembers ==
    {{}} \cup {{<<"headers", JObj([k \in DOMAIN m |-> JStr(m[k])])>>} :
                 m \in ReplyHeaderMaps}
         \cup {{<<"headers", j>>} :
                 j \in {JNull, JStr("a"), JObj([Cache |-> JNull]),
                        JObj([Cache |-> JNum(1)])}}

BodyMembers ==
    {{}} \cup {{<<"body", j>>} :
                 j \in {JStr(""), JStr("{\"m\":\"hi\"}"), JNum(1)}}

OtherMembers ==
    {{}} \cup {{<<"multiValueHeaders", j>>} :
                 j \in {JObj([Cache |-> JArr(<<JStr("a"), JStr("b")>>)]),
                        JStr("a")}}
         \cup {{<<"isBase64Encoded", [t |-> "bool", v |-> TRUE]>>}}

ReplyPayloads ==
    {NoPayload, Text("{"), Text("response"), JNull, JNum(200),
     JArr(<<JNum(200)>>)}
    \cup {ObjectOf(sc \cup h \cup b \cup x) :
            sc \in StatusMembers, h \in HeadersMembers, b \in BodyMembers,
            x \in OtherMembers}

ErrorMessages == {"boom"}

Replies == [Payload : ReplyPayloads, Error : ErrorMessages \cup {Nil}]

InitResponse ==
    /\ ServerOff
    /\ InvokeOff
    /\ RequestOff
    /\ HandlerOff
    /\ TemplateOff
    /\ InnerOff
    /\ EventOff
    /\ respPc = "ready"
    /\ invokeResponse \in Replies
    /\ writeOK \in BOOLEAN
    /\ w = NewWriter
    /\ rhrErr = Nil

(* returnHTTPResponse is applied to a fresh writer. *)
ReturnResponse ==
    /\ respPc = "ready"
    /\ LET r == ReturnHTTPResponse(w, invokeResponse, writeOK)
       IN /\ w' = r.w
          /\ rhrErr' = r.err
    /\ respPc' = "written"
    /\ UNCHANGED <<invokeResponse, writeOK>>
    /\ UNCHANGED notResponse

NextResponse == ReturnResponse

SpecResponse == InitResponse /\ [][NextResponse]_vars

(***************************************************************************)
(* Claims about returnHTTPResponse                                         *)
(***************************************************************************)

(* The JSON members the payload declares, read off the document. *)
DeclaredStatus == Member(invokeResponse.Payload.v, "StatusCode")

DeclaredHeaders == Member(invokeResponse.Payload.v, "Headers")

DeclaredBody == Member(invokeResponse.Payload.v, "Body")

(* A reply with no remote error and a payload that decodes, written to a   *)
(* client that takes it.                                                   *)
ReplyDecodes ==
    /\ invokeResponse.Error = Nil
    /\ DecodeReply(invokeResponse.Payload).err = Nil
    /\ writeOK

C7_RemoteErrorWins ==
    respPc = "written" /\ invokeResponse.Error # Nil =>
        /\ rhrErr = Nil
        /\ w.status = 500
        /\ writeOK => w.body = invokeResponse.Error \o "\n"
        /\ w.sent = [k \in {"Content-Type", "X-Content-Type-Options"} |->
                       IF k = "Content-Type" THEN "text/plain; charset=utf-8"
                       ELSE "nosniff"]

(* C7 witness: a remote error came with a payload that decodes and         *)
(* declares status 200, a header and a body; the response is the 500.      *)
C7_Witness ==
    /\ respPc = "written"
    /\ invokeResponse.Error = "boom"
    /\ DecodeReply(invokeResponse.Payload).err = Nil
    /\ invokeResponse.Payload.t = "obj"
    /\ DeclaredStatus = JNum(200)
    /\ DeclaredHeaders.t = "obj" /\ DOMAIN DeclaredHeaders.v # {}
    /\ DeclaredBody = JStr("{\"m\":\"hi\"}")
    /\ w.status = 500
    /\ w.body = "boom\n"

(***************************************************************************)
(* parseHTTPRequest (src/api.go 763-816)                                   *)
(*                                                                         *)
(* The request is what net/http hands the handler: Header holds, under the *)
(* canonical form of each name, the values of the header lines of that     *)
(* name in the order they came; URL.Query() splits the query string at "&" *)
(* and keeps, per name, the values of its well-formed pairs in order,      *)
(* silently dropping the pairs it cannot decode; PathValue gives the       *)
(* segment the router matched for a wildcard of the pattern, "" for any    *)
(* other name.  BodyOK tells whether io.ReadAll reads the body, MarshalOK  *)
(* whether json.Marshal returns the event without an error: the error      *)
(* return of line 811 is modelled as the source has it, although           *)
(* json.Marshal has no error to return for the field types of              *)
(* genericAPIEvent as declared.                                            *)
(* A query string is a sequence of pairs [k, v, ok], ok                    *)
(* telling whether the pair decodes.  The header lines are those net/http  *)
(* keeps in Header: it moves Host to the request's Host field.             *)
(***************************************************************************)

(* textproto's ReadMIMEHeader: the Header map of a sequence of lines. *)
RECURSIVE ReadHeader(_)
ReadHeader(lines) ==
    IF lines = <<>>
    THEN EmptyMap
    ELSE LET h == ReadHeader(SubSeq(lines, 1, Len(lines) - 1))
             l == lines[Len(lines)]
             key == CanonicalKey(l.k)
         IN With(h, key, IF key \in DOMAIN h THEN Append(h[key], l.v)
                                            ELSE <<l.v>>)

(* url.ParseQuery, its error dropped as URL.Query() drops it. *)
RECURSIVE Query(_)
Query(pairs) ==
    IF pairs = <<>>
    THEN EmptyMap
    ELSE LET m == Query(SubSeq(pairs, 1, Len(pairs) - 1))
             q == pairs[Len(pairs)]
         IN IF ~q.ok
            THEN m
            ELSE With(m, q.k, IF q.k \in DOMAIN m THEN Append(m[q.k], q.v)
                                                  ELSE <<q.v>>)

(* r.PathValue(name) *)
PathValue(r, name) ==
    IF name \in DOMAIN r.PathValues THEN r.PathValues[name] ELSE ""

(* The single value kept for a header: the last one. *)
SingleHeaderLast(values) == values[Len(values)]

(* The single value kept for a header (line 785): values[0]. *)
SingleHeader(values) == values[1]

(* The single value kept for a query parameter: the first one. *)
SingleQueryFirst(values) == values[1]

(* The single value kept for a query parameter (line 794):                 *)
(* values[len(values)-1].                                                  *)
SingleQuery(values) == values[Len(values)]

(* Whether a path value is put in pathParams: always. *)
KeepPathValueAlways(paramValue) == TRUE

(* Whether a path value is put in pathParams (line 775). *)
KeepPathValue(paramValue) == paramValue # ""

(* json.Marshal of a map[string]string and of a map[string][]string; a     *)
(* map that was made is an object even when it is empty.                   *)
MarshalStringMap(m) == JObj([k \in DOMAIN m |-> JStr(m[k])])

MarshalStringListMap(m) ==
    JObj([k \in DOMAIN m |->
            JArr([i \in DOMAIN m[k] |-> JStr(m[k][i])])])

(* Whether json.Marshal leaves out a field whose value is empty, as it     *)
(* does for a field tagged omitempty.                                      *)
OmittedWhenEmpty(j) ==
    \/ j.t = "str" /\ j.v = ""
    \/ j.t \in {"obj", "arr"} /\ DOMAIN j.v = {}

(* Whether json.Marshal leaves out a field of genericAPIEvent: no tag of   *)
(* lines 687-695 has omitempty.                                            *)
Omitted(j) == FALSE

(* json.Marshal(genericAPIEvent{...}) (lines 686-696, 798-810) *)
MarshalEvent(e) ==
    LET fields ==
          [resource |-> JStr(e.Resource),
           path |-> JStr(e.Path),
           httpMethod |-> JStr(e.HTTPMethod),
           headers |-> MarshalStringMap(e.Headers),
           multiValueHeaders |-> MarshalStringListMap(e.MultiValueHeaders),
           queryStringParameters |->
               MarshalStringMap(e.QueryStringParameters),
           multiValueQueryStringParameters |->
               MarshalStringListMap(e.MultiValueQueryStringParameters),
           pathParameters |-> MarshalStringMap(e.PathParameters),
           body |-> JStr(e.Body)]
    IN JObj([k \in {f \in DOMAIN fields : ~Omitted(fields[f])} |->
               fields[k]])

(* parseHTTPRequest(r, pathParamKeys, resourcePath): the bytes and the     *)
(* error.                                                                  *)
ParseHTTPRequest(r, pathParamKeys, resourcePath) ==
    IF ~r.BodyOK
    THEN [bytes |-> NoPayload, err |-> "readBody"]
    ELSE LET present == {pathParamKeys[i] : i \in DOMAIN pathParamKeys}
             query == Query(r.RawQuery)
             event ==
                [Resource |-> resourcePath,
                 Path |-> r.Path,
                 HTTPMethod |-> r.Method,
                 Headers |-> [k \in DOMAIN r.Header |->
                                SingleHeader(r.Header[k])],
                 MultiValueHeaders |-> r.Header,
                 QueryStringParameters |->
                     [k \in DOMAIN query |-> SingleQuery(query[k])],
                 MultiValueQueryStringParameters |-> query,
                 PathParameters |->
                     [k \in {x \in present : KeepPathValue(PathValue(r, x))} |->
                        PathValue(r, k)],
                 Body |-> r.Body]
         IN IF ~r.MarshalOK
            THEN [bytes |-> NoPayload, err |-> "marshal"]
            ELSE [bytes |-> MarshalEvent(event), err |-> Nil]

(* The requests of the model. *)
HeaderLineNames == {"h", "H", "X-Id"}

LineValues == {"v1", "v2"}

HeaderLines == [k : HeaderLineNames, v : LineValues]

QueryNames == {"a", "b"}

QueryValues == {"1", "2"}

QueryPairs ==
    [k : QueryNames, v : QueryValues, ok : {TRUE}]
    \cup {[k |-> "a", v |-> "1", ok |-> FALSE]}

SeqsUpTo(S, n) == UNION {[1 .. m -> S] : m \in 0 .. n}

(***************************************************************************)
(* Routes (src/api.go 626-632, 712-722).  A route path is a sequence of    *)
(* segments as http.ServeMux reads them: a literal, a wildcard {name}, a   *)
(* wildcard {name...} that takes the rest of the path, or {$} that matches *)
(* the end of a path with a trailing slash.  ServeMux panics at            *)
(* registration on a wildcard that is not a whole segment, on a name that  *)
(* is used twice and on a {name...} or {$} that is not the last segment. A *)
(* request path is a sequence of non-empty segments and a trailing slash:  *)
(* ServeMux redirects any other path to its clean form.                    *)
(***************************************************************************)
Lit(x) == [t |-> "lit", s |-> x]

Wild(n) == [t |-> "wild", s |-> n]

Multi(n) == [t |-> "multi", s |-> n]

EndOfPath == [t |-> "end", s |-> "$"]

(* The text of a segment of a route path. *)
SegmentText(seg) ==
    CASE seg.t = "lit" -> seg.s
      [] seg.t = "wild" -> "{" \o seg.s \o "}"
      [] seg.t = "multi" -> "{" \o seg.s \o "...}"
      [] seg.t = "end" -> "{$}"

(* The texts joined into a path. *)
RECURSIVE PathText(_)
PathText(texts) ==
    IF texts = <<>> THEN "" ELSE "/" \o Head(texts) \o PathText(Tail(texts))

(* route.path *)
RoutePath(segs) == PathText([i \in DOMAIN segs |-> SegmentText(segs[i])])

(* r.URL.Path *)
URLPath(reqSegs, slash) ==
    PathText(reqSegs) \o (IF slash THEN "/" ELSE "")

(* What the scan of lines 713-722 takes from a segment: the text between   *)
(* "{" and the next "}".                                                   *)
ScanKey(seg) ==
    CASE seg.t = "wild" -> seg.s
      [] seg.t = "multi" -> seg.s \o "..."
      [] seg.t = "end" -> "$"

(* pathParamKeys (lines 712-722): the submatch of each match of the        *)
(* regular expression in route.path, in order.                             *)
RECURSIVE PathParamKeys(_)
PathParamKeys(segs) ==
    IF segs = <<>>
    THEN <<>>
    ELSE IF Head(segs).t = "lit"
    THEN PathParamKeys(Tail(segs))
    ELSE <<ScanKey(Head(segs))>> \o PathParamKeys(Tail(segs))

(* http.ServeMux matching a request path against the path of a pattern:    *)
(* whether it matches and the values of the wildcards.                     *)
RECURSIVE MatchPath(_, _, _)
MatchPath(segs, reqSegs, slash) ==
    IF segs = <<>>
    THEN [ok |-> reqSegs = <<>> /\ ~slash, values |-> EmptyMap]
    ELSE LET seg == Head(segs)
         IN CASE seg.t = "end" ->
                   [ok |-> reqSegs = <<>> /\ slash, values |-> EmptyMap]
              [] seg.t = "multi" ->
                   [ok |-> reqSegs # <<>> \/ slash,
                    values |-> [n \in {seg.s} |->
                                  IF reqSegs = <<>>
                                  THEN ""
                                  ELSE Head(reqSegs) \o
                                       URLPath(Tail(reqSegs), slash)]]
              [] seg.t = "lit" ->
                   IF reqSegs # <<>> /\ Head(reqSegs) = seg.s
                   THEN MatchPath(Tail(segs), Tail(reqSegs), slash)
                   ELSE [ok |-> FALSE, values |-> EmptyMap]
              [] seg.t = "wild" ->
                   IF reqSegs = <<>>
                   THEN [ok |-> FALSE, values |-> EmptyMap]
                   ELSE LET rest == MatchPath(Tail(segs), Tail(reqSegs),
                                              slash)
                        IN [ok |-> rest.ok,
                            values |-> With(rest.values, seg.s,
                                            Head(reqSegs))]

(* The route paths ServeMux registers without a panic. *)
RouteSegments ==
    {Lit("users"), Lit("test"), Wild("id"), Wild("org"), Multi("rest"),
     EndOfPath}

ValidPattern(segs) ==
    /\ segs # <<>>
    /\ \A i \in DOMAIN segs :
          segs[i].t \in {"multi", "end"} => i = Len(segs)
    /\ \A i, j \in DOMAIN segs :
          segs[i].t # "lit" /\ segs[j].t # "lit" /\ segs[i].s = segs[j].s
             => i = j

RoutePaths ==
    {segs \in SeqsUpTo(RouteSegments, MaxSegments) : ValidPattern(segs)}

Methods == {"GET", "POST"}

(* The request paths of the model. *)
RequestSegments == {"users", "test", "42"}

RequestPaths ==
    {<<q, sl>> \in SeqsUpTo(RequestSegments, MaxSegments) \X BOOLEAN :
        q = <<>> => sl}

(* The body a client sends with a method. *)
BodyFor(method) == IF method = "POST" THEN "{\"name\": \"test\"}" ELSE ""

(* How reading the body and serialising the event go. *)
ReadOutcomes ==
    {[body |-> TRUE, marshal |-> TRUE], [body |-> FALSE, marshal |-> TRUE],
     [body |-> TRUE, marshal |-> FALSE]}

(* A route and a request ServeMux matches to it. *)
MatchOf(segs, method, reqSegs, slash) ==
    [route |-> RoutePath(segs), keys |-> PathParamKeys(segs),
     method |-> method, path |-> URLPath(reqSegs, slash),
     values |-> MatchPath(segs, reqSegs, slash).values,
     body |-> BodyFor(method), segs |-> segs, reqSegs |-> reqSegs]

RouterMatched ==
    {MatchOf(x[1], x[2], x[3][1], x[3][2]) :
        x \in {y \in RoutePaths \X Methods \X RequestPaths :
                 MatchPath(y[1], y[3][1], y[3][2]).ok}}

(* parseHTTPRequest called as the tests call it, on a request that no      *)
(* router matched: no name has a path value.                               *)
Unrouted ==
    {[route |-> "/users/{id}", keys |-> <<"id">>, method |-> "GET",
      path |-> "/users/123", values |-> EmptyMap, body |-> "",
      segs |-> <<Lit("users"), Wild("id")>>, reqSegs |-> <<>>]}

(* The routes and requests the handlers of the model serve. *)
Matched ==
    {m \in RouterMatched :
        \/ m.method = "GET" /\ m.route = "/test" /\ m.path = "/test"
        \/ m.method = "POST" /\ m.route = "/users/{id}"
              /\ m.path = "/users/42"}

(* The route the request of the model was matched to. *)
RouteOf(r) == CHOOSE m \in Matched : m.path = r.Path

InitRequest ==
    /\ ServerOff
    /\ InvokeOff
    /\ ResponseOff
    /\ HandlerOff
    /\ TemplateOff
    /\ InnerOff
    /\ EventOff
    /\ reqPc = "ready"
    /\ \/ /\ matched \in Matched
          /\ wire \in SeqsUpTo(HeaderLines, MaxHeaderLines)
       \/ /\ matched \in RouterMatched \cup Unrouted
          /\ wire = <<>>
    /\ \E q \in SeqsUpTo(QueryPairs, MaxQueryPairs),
          ok \in ReadOutcomes :
          /\ matched \notin Matched => q = <<>>
          /\ req = [Method |-> matched.method, Path |-> matched.path,
                    RawQuery |-> q, Header |-> ReadHeader(wire),
                    PathValues |-> matched.values, Body |-> matched.body,
                    BodyOK |-> ok.body, MarshalOK |-> ok.marshal]
    /\ eventByte = NoPayload
    /\ parseErr = Nil

(* parseHTTPRequest is applied to the request. *)
Translate ==
    /\ reqPc = "ready"
    /\ LET p == ParseHTTPRequest(req, matched.keys, matched.route)
       IN /\ eventByte' = p.bytes
          /\ parseErr' = p.err
    /\ reqPc' = "parsed"
    /\ UNCHANGED <<wire, req, matched>>
    /\ UNCHANGED notRequest

NextRequest == Translate

SpecRequest == InitRequest /\ [][NextRequest]_vars

(***************************************************************************)
(* Claims about parseHTTPRequest                                           *)
(***************************************************************************)

(* The request was translated: the event is the JSON object in eventByte. *)
Translated == reqPc = "parsed" /\ parseErr = Nil

EventField(name) == eventByte.v[name].v

(* The values a sequence of [k, v] entries holds, in order. *)
ValuesIn(entries) == [i \in DOMAIN entries |-> entries[i].v]

(* The values of the well-formed pairs of the query string named k. *)
Occurrences(k) ==
    ValuesIn(SelectSeq(req.RawQuery, LAMBDA q : q.ok /\ q.k = k))

(* The values of the header lines whose name is key, up to case. *)
LineValuesOf(key) ==
    ValuesIn(SelectSeq(wire, LAMBDA l : CanonicalKey(l.k) = key))

(* A sequence of strings as the JSON array json.Marshal makes of it. *)
StringArray(q) == JArr([i \in DOMAIN q |-> JStr(q[i])])

(* C9: in the event, queryStringParameters maps each parameter name that   *)
(* occurs in the query string to the value of its last occurrence and      *)
(* multiValueQueryStringParameters maps it to the values of all its        *)
(* occurrences in order; a name that does not occur is in neither map.     *)
(* An occurrence is a pair of the query string that decodes.               *)
C9_QueryParameters ==
    Translated =>
        /\ DOMAIN EventField("queryStringParameters") =
              {k \in QueryNames : Occurrences(k) # <<>>}
        /\ DOMAIN EventField("multiValueQueryStringParameters") =
              {k \in QueryNames : Occurrences(k) # <<>>}
        /\ \A k \in QueryNames :
              Occurrences(k) # <<>> =>
                 /\ EventField("queryStringParameters")[k] =
                       JStr(Occurrences(k)[Len(Occurrences(k))])
                 /\ EventField("multiValueQueryStringParameters")[k] =
                       StringArray(Occurrences(k))

(* C9 witness: the query string a=1&a=2 was translated, a is 2 in the      *)
(* single-value map and [1, 2] in the multi-value map.                     *)
C9_Witness ==
    /\ Translated
    /\ Occurrences("a") = <<"1", "2">>
    /\ EventField("queryStringParameters")["a"] = JStr("2")
    /\ EventField("multiValueQueryStringParameters")["a"] =
          StringArray(<<"1", "2">>)
    /\ "b" \notin DOMAIN EventField("queryStringParameters")

(* C10: in the event, headers maps each header name that came with one or  *)
(* more values to the first of them and multiValueHeaders maps it to all   *)
(* of them in the order they came.  Names are taken up to case, under      *)
(* their canonical form.                                                   *)
C10_Headers ==
    Translated =>
        \A name \in HeaderLineNames :
            LET key == CanonicalKey(name)
            IN LineValuesOf(key) # <<>> =>
                 /\ key \in DOMAIN EventField("headers")
                 /\ EventField("headers")[key] = JStr(LineValuesOf(key)[1])
                 /\ EventField("multiValueHeaders")[key] =
                       StringArray(LineValuesOf(key))

(* C10 witness: the lines H: v1 and H: v2 were translated, H is v1 in      *)
(* headers and [v1, v2] in multiValueHeaders.                              *)
C10_Witness ==
    /\ Translated
    /\ wire = <<[k |-> "H", v |-> "v1"], [k |-> "H", v |-> "v2"]>>
    /\ EventField("headers")["H"] = JStr("v1")
    /\ EventField("multiValueHeaders")["H"] = StringArray(<<"v1", "v2">>)

(* C20: in the event, headers maps each header name that came with        *)
(* several values to the last of them.                                     *)
C20_HeadersLastWins ==
    Translated =>
        \A name \in HeaderLineNames :
            LET key == CanonicalKey(name)
                values == LineValuesOf(key)
            IN Len(values) > 1 =>
                 /\ key \in DOMAIN EventField("headers")
                 /\ EventField("headers")[key] = JStr(values[Len(values)])

(* The names of the placeholders {name} of the route. *)
Placeholders == {matched.segs[i].s : i \in {j \in DOMAIN matched.segs :
                                              matched.segs[j].t = "wild"}}

(* The request came through the router. *)
Routed == matched \in RouterMatched

(* C11: in the event, pathParameters holds exactly the placeholders {name} *)
(* of the route path whose matched value is not empty, each with the       *)
(* segment of the request path the router matched to it; it holds no empty *)
(* value and no key that is not such a placeholder.                        *)
C11_PathParameters ==
    Translated =>
        /\ DOMAIN EventField("pathParameters") =
              {n \in Placeholders : PathValue(req, n) # ""}
        /\ \A n \in DOMAIN EventField("pathParameters") :
              EventField("pathParameters")[n] # JStr("")
        /\ Routed =>
              \A i \in DOMAIN matched.segs :
                 matched.segs[i].t = "wild" =>
                    /\ matched.reqSegs[i] # ""
                    /\ EventField("pathParameters")[matched.segs[i].s] =
                          JStr(matched.reqSegs[i])

(* C11 witness: a request for /users/42 matched to /{org}/{id} was         *)
(* translated with pathParameters {org: users, id: 42}.                    *)
C11_Witness ==
    /\ Translated
    /\ Routed
    /\ matched.route = "/{org}/{id}"
    /\ req.Path = "/users/42"
    /\ EventField("pathParameters") = [org |-> JStr("users"), id |-> JStr("42")]

(* The fields of the event that are maps. *)
MapFields ==
    {"headers", "multiValueHeaders", "queryStringParameters",
     "multiValueQueryStringParameters", "pathParameters"}

(* C12: for a request that translates, the event is a JSON object with     *)
(* exactly the fields resource, path, httpMethod, headers,                 *)
(* multiValueHeaders, queryStringParameters,                               *)
(* multiValueQueryStringParameters, pathParameters and body; resource is   *)
(* the path of the route, path the URL path of the request, httpMethod its *)
(* method, body its body; and every map field is an object, empty when it  *)
(* has no entry, never null.                                               *)
C12_EventShape ==
    Translated =>
        /\ eventByte.t = "obj"
        /\ DOMAIN eventByte.v =
              MapFields \cup {"resource", "path", "httpMethod", "body"}
        /\ eventByte.v["resource"] = JStr(matched.route)
        /\ eventByte.v["path"] = JStr(req.Path)
        /\ eventByte.v["httpMethod"] = JStr(req.Method)
        /\ eventByte.v["body"] = JStr(req.Body)
        /\ \A f \in MapFields : eventByte.v[f].t = "obj"
        /\ wire = <<>> => eventByte.v["headers"] = JObj(EmptyMap)

(* C12 witness: a GET of /test with no header, no query string and no body *)
(* was translated into an object whose maps are all empty objects.         *)
C12_Witness ==
    /\ Translated
    /\ req.Method = "GET"
    /\ eventByte.v["resource"] = JStr("/test")
    /\ eventByte.v["path"] = JStr("/test")
    /\ eventByte.v["body"] = JStr("")
    /\ \A f \in MapFields : eventByte.v[f] = JObj(EmptyMap)

(***************************************************************************)
(* gatewayHandler (src/api.go 706-761) and printResponse                   *)
(* (src/print_response.go 12-72)                                           *)
(*                                                                         *)
(* net/http runs the handler of each request in a goroutine of its own;    *)
(* the handlers share lambdaRPC, parseJSON and the logger and nothing      *)
(* else.  A handler takes two steps: up to its call of lambdaRPC.Invoke,   *)
(* and from the return of Invoke to its own return.  What Invoke returns   *)
(* is the environment's choice among the outcomes of lambdaCaller.         *)
(***************************************************************************)

StatusBadRequest == 400

StatusServiceUnavailable == 503

(* http.StatusText *)
StatusText(code) ==
    CASE code = StatusBadRequest -> "Bad Request"
      [] code = StatusInternalServerError -> "Internal Server Error"
      [] code = StatusServiceUnavailable -> "Service Unavailable"
      [] OTHER -> ""

(* A log record. *)
Record(level, msg, val) == [level |-> level, msg |-> msg, val |-> val]

(* json.Unmarshal([]byte(vv), &newJSON) for the strings of the model. *)
ParseText(vv) ==
    CASE vv = "{\"m\":\"hi\"}" ->
            [err |-> Nil, val |-> JObj([m |-> JStr("hi")])]
      [] vv = "{\"m\":\"[1]\"}" ->
            [err |-> Nil, val |-> JObj([m |-> JStr("[1]")])]
      [] vv = "[1]" -> [err |-> Nil, val |-> JArr(<<JNum(1)>>)]
      [] vv = "200" -> [err |-> Nil, val |-> JNum(200)]
      [] vv = "true" -> [err |-> Nil, val |-> [t |-> "bool", v |-> TRUE]]
      [] vv = "null" -> [err |-> Nil, val |-> JNull]
      [] vv = "\"hi\"" -> [err |-> Nil, val |-> JStr("hi")]
      [] vv = "\"[1]\"" -> [err |-> Nil, val |-> JStr("[1]")]
      [] OTHER -> [err |-> "syntax", val |-> JNull]

(* parseInnerJSON parsing also the strings inside the objects it parsed    *)
(* and inside the objects it was given.                                    *)
ParseInnerJSONDeep(data) ==
    LET parse(j) == IF j.t = "str" /\ ParseText(j.v).err = Nil
                    THEN ParseText(j.v).val
                    ELSE j
    IN [k \in DOMAIN data |->
          IF parse(data[k]).t = "obj"
          THEN JObj([x \in DOMAIN parse(data[k]).v |->
                       parse(parse(data[k]).v[x])])
          ELSE parse(data[k])]

(* parseInnerJSON returning a new map of the values it parsed, without the *)
(* entries it left alone.                                                  *)
ParseInnerJSONParsedOnly(data) ==
    [k \in {x \in DOMAIN data :
               data[x].t = "str" /\ ParseText(data[x].v).err = Nil} |->
        ParseText(data[k].v).val]

(* parseInnerJSON(data) (print_response.go 59-72) *)
ParseInnerJSON(data) ==
    [k \in DOMAIN data |->
        IF data[k].t = "str" /\ ParseText(data[k].v).err = Nil
        THEN ParseText(data[k].v).val
        ELSE data[k]]

(* What printResponse returns for a payload that is not JSON, were it the  *)
(* error of json.Unmarshal.                                                *)
NonJSONPayloadErrorReturned == "unmarshal"

(* What printResponse returns for a payload that is not a JSON object      *)
(* (line 40): nil.                                                         *)
NonJSONPayloadError == Nil

(* printResponse(logger, invokeResponse, parseJSON): what it logs and the  *)
(* error it returns.  json.MarshalIndent cannot fail on what json.Unmarshal *)
(* produced.                                                               *)
PrintResponse(resp, parse) ==
    LET errLog == IF resp.Error # Nil
                  THEN <<Record("error", "Lambda returned error",
                                Text(resp.Error))>>
                  ELSE <<>>
        p == resp.Payload
    IN IF p.t = "nil"
       THEN [log |-> errLog \o
                     <<Record("debug", "Lambda returned no payload",
                              NoPayload)>>,
             err |-> Nil]
       ELSE IF p.t \notin {"obj", "null"}
       THEN [log |-> errLog \o
                     <<Record("info", "Lambda returned non-JSON payload", p)>>,
             err |-> NonJSONPayloadError]
       ELSE [log |-> errLog \o
                     <<Record("info", "Lambda returned JSON payload",
                              IF p.t = "obj" /\ parse
                              THEN JObj(ParseInnerJSON(p.v))
                              ELSE p)>>,
             err |-> Nil]

(* The reply after printResponse, had parseInnerJSON worked on the reply's *)
(* own payload.                                                            *)
ReplyAfterPrintNormalised(resp, parse) ==
    IF parse /\ resp.Payload.t = "obj"
    THEN [resp EXCEPT !.Payload = JObj(ParseInnerJSON(resp.Payload.v))]
    ELSE resp

(* The handler's invokeResponse after printResponse (line 746), which is   *)
(* given a copy and decodes the payload into a map of its own              *)
(* (print_response.go 37-38).                                              *)
ReplyAfterPrint(resp, parse) == resp

(* The answer to a failed Invoke, with the status of line 755. *)
OnInvokeErrorAsMalformed(wr, ok) ==
    HTTPError(wr, StatusText(StatusServiceUnavailable),
              StatusInternalServerError, ok)

(* The answer to a failed Invoke (line 741). *)
OnInvokeError(wr, ok) ==
    HTTPError(wr, StatusText(StatusServiceUnavailable),
              StatusServiceUnavailable, ok)

(* The answer to a failed returnHTTPResponse, with the status of line 741. *)
OnReturnErrorAsUnavailable(wr, ok) ==
    HTTPError(wr, StatusText(StatusServiceUnavailable),
              StatusServiceUnavailable, ok)

(* The answer to a failed returnHTTPResponse (line 755). *)
OnReturnError(wr, ok) ==
    HTTPError(wr, StatusText(StatusServiceUnavailable),
              StatusInternalServerError, ok)

(* The requests and the outcomes of Invoke of the model. *)
HandlerRequests ==
    {[Method |-> m.method, Path |-> m.path, RawQuery |-> <<>>,
      Header |-> EmptyMap, PathValues |-> m.values, Body |-> m.body,
      BodyOK |-> ok.body, MarshalOK |-> ok.marshal] :
        m \in Matched, ok \in ReadOutcomes}

HandlerPayloads ==
    {NoPayload, Text("{"), JNull, JArr(<<JNum(200)>>),
     ObjectOf({<<"statusCode", JNum(200)>>,
               <<"headers", JObj([Cache |-> JStr("a")])>>,
               <<"body", JStr("{\"m\":\"hi\"}")>>}),
     ObjectOf({<<"body", JStr("a")>>}),
     ObjectOf({<<"statusCode", JStr("200")>>})}

InvokeOutcomes ==
    {[resp |-> ZeroResponse, err |-> "invoke"]}
    \cup {[resp |-> [Payload |-> p, Error |-> e], err |-> Nil] :
            p \in HandlerPayloads, e \in ErrorMessages \cup {Nil}}

InitHandler ==
    /\ ServerOff
    /\ InvokeOff
    /\ ResponseOff
    /\ RequestOff
    /\ TemplateOff
    /\ InnerOff
    /\ EventOff
    /\ parseJSON \in BOOLEAN
    /\ hPc = [h \in Handlers |-> "idle"]
    /\ hReq = [h \in Handlers |-> NoRequest]
    /\ hConn = [h \in Handlers |-> TRUE]
    /\ hEvent = [h \in Handlers |-> NoPayload]
    /\ hCalls = [h \in Handlers |-> 0]
    /\ hRet = [h \in Handlers |-> NoReturn]
    /\ hW = [h \in Handlers |-> NewWriter]
    /\ hLog = [h \in Handlers |-> <<>>]

(* The handler going on to Invoke whatever parseHTTPRequest returned. *)
FallsThroughOnParseError(err) == FALSE

(* Whether the handler returns after parseHTTPRequest (lines 731-736). *)
ReturnsOnParseError(err) == err # Nil

(* The handler from its start to its call of lambdaRPC.Invoke (lines       *)
(* 724-738), or to its return when the request does not parse.             *)
HandleRequest(h, r, ok) ==
    /\ hPc[h] = "idle"
    /\ hReq' = [hReq EXCEPT ![h] = r]
    /\ hConn' = [hConn EXCEPT ![h] = ok]
    /\ LET p == ParseHTTPRequest(r, RouteOf(r).keys, RouteOf(r).route)
       IN IF ReturnsOnParseError(p.err)
          THEN /\ hW' = [hW EXCEPT ![h] =
                           HTTPError(@, StatusText(StatusServiceUnavailable),
                                     StatusBadRequest, ok)]
               /\ hLog' = [hLog EXCEPT ![h] =
                             Append(@, Record("error",
                                              "parseHTTPRequest failed",
                                              NoPayload))]
               /\ hPc' = [hPc EXCEPT ![h] = "done"]
               /\ UNCHANGED <<hEvent, hCalls>>
          ELSE /\ hEvent' = [hEvent EXCEPT ![h] = p.bytes]
               /\ hCalls' = [hCalls EXCEPT ![h] = @ + 1]
               /\ hPc' = [hPc EXCEPT ![h] = "invoking"]
               /\ UNCHANGED <<hW, hLog>>
    /\ UNCHANGED <<parseJSON, hRet>>
    /\ UNCHANGED notHandler

(* The handler from the return of Invoke to its own return (lines          *)
(* 738-759).                                                               *)
InvokeReturns(h, out) ==
    /\ hPc[h] = "invoking"
    /\ hRet' = [hRet EXCEPT ![h] = out]
    /\ IF out.err # Nil
       THEN /\ hW' = [hW EXCEPT ![h] = OnInvokeError(@, hConn[h])]
            /\ hLog' = [hLog EXCEPT ![h] =
                          Append(@, Record("error", "invoke failed",
                                           NoPayload))]
       ELSE LET pr == PrintResponse(out.resp, parseJSON)
                rr == ReturnHTTPResponse(hW[h],
                                         ReplyAfterPrint(out.resp, parseJSON),
                                         hConn[h])
            IN IF pr.err # Nil
               THEN /\ hW' = [hW EXCEPT ![h] =
                                HTTPError(@,
                                    StatusText(StatusInternalServerError),
                                    StatusInternalServerError, hConn[h])]
                    /\ hLog' = [hLog EXCEPT ![h] =
                                  @ \o pr.log \o
                                  <<Record("error", "printResponse failed",
                                           NoPayload)>>]
               ELSE IF rr.err # Nil
               THEN /\ hW' = [hW EXCEPT ![h] =
                                OnReturnError(rr.w, hConn[h])]
                    /\ hLog' = [hLog EXCEPT ![h] =
                                  @ \o pr.log \o
                                  <<Record("error",
                                           "returnHTTPResponse failed",
                                           NoPayload)>>]
               ELSE /\ hW' = [hW EXCEPT ![h] = rr.w]
                    /\ hLog' = [hLog EXCEPT ![h] = @ \o pr.log]
    /\ hPc' = [hPc EXCEPT ![h] = "done"]
    /\ UNCHANGED <<parseJSON, hReq, hConn, hEvent, hCalls>>
    /\ UNCHANGED notHandler

NextHandler ==
    \/ \E h \in Handlers, r \in HandlerRequests, ok \in BOOLEAN :
          HandleRequest(h, r, ok)
    \/ \E h \in Handlers, out \in InvokeOutcomes : InvokeReturns(h, out)

SpecHandler == InitHandler /\ [][NextHandler]_vars

(***************************************************************************)
(* Claims about gatewayHandler                                             *)
(***************************************************************************)

(* Invoke returned an error to the handler, which has returned. *)
InvokeFailed(h) == hPc[h] = "done" /\ hRet[h].err \notin {Nil, "pending"}

(* Invoke returned a reply with no remote error whose payload does not     *)
(* decode as a reply record, and the handler has returned.                 *)
ReplyMalformed(h) ==
    /\ hPc[h] = "done"
    /\ hRet[h].err = Nil
    /\ hRet[h].resp.Error = Nil
    /\ DecodeReply(hRet[h].resp.Payload).err # Nil

(* C8: when Invoke returns an error for a request, the handler answers the *)
(* request with status 503 and the line "Service Unavailable" for a body,  *)
(* whereas a malformed reply is answered with status 500; and the handler  *)
(* calls Invoke once for a request, whatever Invoke returns.               *)
C8_InvokeErrorIs503 ==
    \A h \in Handlers :
        /\ hCalls[h] <= 1
        /\ InvokeFailed(h) =>
              /\ hW[h].status = 503
              /\ hConn[h] => hW[h].body = "Service Unavailable\n"
              /\ hCalls[h] = 1
        /\ ReplyMalformed(h) => hW[h].status = 500

(* C8 witness: Invoke failed for one request, answered 503 after one call, *)
(* and returned a malformed reply for the other, answered 500.             *)
C8_Witness ==
    /\ InvokeFailed("h1")
    /\ hW["h1"].status = 503
    /\ hW["h1"].body = "Service Unavailable\n"
    /\ hCalls["h1"] = 1
    /\ ReplyMalformed("h2")
    /\ hW["h2"].status = 500

(* The handler logged the message at the error level. *)
LoggedError(h, msg) ==
    \E i \in DOMAIN hLog[h] :
        hLog[h][i].level = "error" /\ hLog[h][i].msg = msg

(* C14: when Invoke succeeds, the reply carries no remote error and its    *)
(* payload does not decode as a reply record, be it absent, not JSON, or   *)
(* JSON of another shape, the handler answers the request with status 500  *)
(* and logs the failure.                                                   *)
C14_MalformedReplyIs500 ==
    \A h \in Handlers :
        ReplyMalformed(h) =>
            /\ hW[h].wroteHeader
            /\ hW[h].status = 500
            /\ LoggedError(h, "returnHTTPResponse failed")

(* C14 witness: one reply was not JSON, the other a JSON object whose      *)
(* statusCode is a string; both requests were answered 500.                *)
C14_Witness ==
    /\ ReplyMalformed("h1")
    /\ hRet["h1"].resp.Payload = Text("{")
    /\ hW["h1"].status = 500
    /\ ReplyMalformed("h2")
    /\ hRet["h2"].resp.Payload.t = "obj"
    /\ hW["h2"].status = 500

(* The error parseHTTPRequest returned to the handler. *)
TranslationError(h) ==
    ParseHTTPRequest(hReq[h], RouteOf(hReq[h]).keys,
                     RouteOf(hReq[h]).route).err

(* The handler of a request that did not translate has returned. *)
TranslationFailed(h) ==
    hPc[h] = "done" /\ hCalls[h] = 0 /\ TranslationError(h) # Nil

TranslationOf(h) ==
    ParseHTTPRequest(hReq[h], RouteOf(hReq[h]).keys, RouteOf(hReq[h]).route)

(* C25: a handler whose request translates calls Invoke once, with the     *)
(* bytes of that request's event, whether the call succeeds or fails and   *)
(* whatever the reply; a handler whose request does not translate never    *)
(* calls Invoke.                                                           *)
C25_OneInvokePerRequest ==
    \A h \in Handlers :
        /\ hPc[h] = "idle" => hCalls[h] = 0
        /\ hPc[h] # "idle" =>
              IF TranslationOf(h).err = Nil
              THEN /\ hCalls[h] = 1
                   /\ hEvent[h] = TranslationOf(h).bytes
                   /\ hEvent[h].v["path"] = JStr(hReq[h].Path)
                   /\ hEvent[h].v["httpMethod"] = JStr(hReq[h].Method)
                   /\ hEvent[h].v["body"] = JStr(hReq[h].Body)
              ELSE /\ hCalls[h] = 0
                   /\ hEvent[h] = NoPayload
                   /\ hPc[h] = "done"

(* C25 witness: one handler's request translated and its one call failed;  *)
(* the other's did not translate and it returned without calling.          *)
C25_Witness ==
    /\ hPc["h1"] = "done"
    /\ hCalls["h1"] = 1
    /\ hRet["h1"].err = "invoke"
    /\ hEvent["h1"].v["path"] = JStr("/users/42")
    /\ hPc["h2"] = "done"
    /\ hCalls["h2"] = 0
    /\ ~hReq["h2"].BodyOK

(* The response of a handler that has returned, had parseJSON been pj. *)
ResponseUnder(h, pj) ==
    IF TranslationOf(h).err # Nil
    THEN HTTPError(NewWriter, "Service Unavailable", 400, hConn[h])
    ELSE IF hRet[h].err # Nil
    THEN HTTPError(NewWriter, "Service Unavailable", 503, hConn[h])
    ELSE IF PrintResponse(hRet[h].resp, pj).err # Nil
    THEN HTTPError(NewWriter, "Internal Server Error", 500, hConn[h])
    ELSE LET rr == ReturnHTTPResponse(NewWriter,
                                      ReplyAfterPrint(hRet[h].resp, pj),
                                      hConn[h])
         IN IF rr.err # Nil
            THEN HTTPError(rr.w, "Service Unavailable", 500, hConn[h])
            ELSE rr.w

(* C29: the event sent to the function and the response written to the     *)
(* client are what they would be with the other value of parseJSON; the    *)
(* normalisation shows in the log only.                                    *)
C29_ParseJSONUnobservable ==
    \A h \in Handlers :
        /\ hPc[h] # "idle" /\ hCalls[h] = 1 =>
               hEvent[h] = TranslationOf(h).bytes
        /\ hPc[h] = "done" =>
               /\ hW[h] = ResponseUnder(h, TRUE)
               /\ hW[h] = ResponseUnder(h, FALSE)

(* C29 witness: with parseJSON on, the log shows the body of the reply as  *)
(* the object it is the text of, and the client got the text.              *)
C29_Witness ==
    /\ parseJSON
    /\ hPc["h1"] = "done"
    /\ hRet["h1"].err = Nil
    /\ hRet["h1"].resp.Payload.t = "obj"
    /\ "body" \in DOMAIN hRet["h1"].resp.Payload.v
    /\ hRet["h1"].resp.Payload.v["body"].t = "str"
    /\ hRet["h1"].resp.Payload.v["body"].v = "{\"m\":\"hi\"}"
    /\ \E i \in DOMAIN hLog["h1"] :
          /\ hLog["h1"][i].msg = "Lambda returned JSON payload"
          /\ hLog["h1"][i].val.v["body"].t = "obj"
    /\ hW["h1"].status = 200
    /\ hW["h1"].body = "{\"m\":\"hi\"}"

(***************************************************************************)
(* The gateway: gatewayHandler calling LambdaRPCClient.Invoke              *)
(*                                                                         *)
(* The handlers of two requests run concurrently, each calling Invoke on   *)
(* the client the server was given (src/api.go 738, src/invoke.go 46-81);  *)
(* the steps of a handler are those of gatewayHandler above and the steps  *)
(* of its call are those of Invoke above.                                  *)
(***************************************************************************)

(* The call of Invoke of every handler going through one frame, as if      *)
(* Invoke kept its request and response in the client.                     *)
CallerOfShared(h) == "c1"

(* The activation of Invoke that the handler's call (line 738) creates:    *)
(* each call has its own parameters and local variables.                   *)
CallerOf(h) == IF h = "h1" THEN "c1" ELSE "c2"

(* The route table runServer was given. *)
RouteTable ==
    <<[method |-> "GET", path |-> "/test"],
      [method |-> "POST", path |-> "/users/{id}"]>>

(* The requests, the replies and the time of the gateway's model. *)
GatewayRequests ==
    {r \in HandlerRequests : r.MarshalOK /\ (r.Method = "GET" => r.BodyOK)}

GatewayReplies ==
    {[Payload |-> NoPayload, Error |-> Nil],
     [Payload |-> Text("{"), Error |-> "boom"],
     [Payload |-> ObjectOf({<<"statusCode", JNum(200)>>,
                            <<"body", JStr("{\"m\":\"hi\"}")>>}),
      Error |-> Nil],
     [Payload |-> ObjectOf({<<"body", JStr("a")>>}), Error |-> Nil]}

GatewayInstant == CHOOSE t \in Instants : \A u \in Instants : t <= u

InitGateway ==
    /\ ServerOff
    /\ ResponseOff
    /\ RequestOff
    /\ InnerOff
    /\ EventOff
    /\ tplPc = "off"
    /\ template = [t |-> "none"]
    /\ routes = RouteTable
    /\ tplErr = Nil
    /\ apiPc = "off"
    /\ apiErr = Nil
    /\ parseJSON \in BOOLEAN
    /\ hPc = [h \in Handlers |-> "idle"]
    /\ hReq = [h \in Handlers |-> NoRequest]
    /\ hConn = [h \in Handlers |-> TRUE]
    /\ hEvent = [h \in Handlers |-> NoPayload]
    /\ hCalls = [h \in Handlers |-> 0]
    /\ hRet = [h \in Handlers |-> NoReturn]
    /\ hW = [h \in Handlers |-> NewWriter]
    /\ hLog = [h \in Handlers |-> <<>>]
    /\ callPc = [c \in Callers |-> "idle"]
    /\ invocation = [c \in Callers |-> 0]
    /\ invocations = 0
    /\ request = [c \in Callers |->
                    [Payload |-> NoPayload, Deadline |-> Timestamp(0)]]
    /\ executionLimit = CHOOSE l \in ExecutionLimits :
                           \A k \in ExecutionLimits : l <= k
    /\ dispatched = [c \in Callers |-> 0]
    /\ overdue = [c \in Callers |-> FALSE]
    /\ conns = <<>>
    /\ client = [c \in Callers |-> 0]
    /\ response = [c \in Callers |-> ZeroResponse]
    /\ ret = [c \in Callers |-> NoReturn]
    /\ dials = [c \in Callers |-> 0]
    /\ rcalls = [c \in Callers |-> 0]
    /\ failure = [c \in Callers |-> "none"]

(* The handler calls Invoke with the event's bytes (line 738). *)
GatewayInvoke(h) ==
    /\ hPc[h] = "invoking"
    /\ callPc[CallerOf(h)] = "idle"
    /\ InvokeStart(CallerOf(h), hEvent[h], GatewayInstant)

(* Invoke returns to the handler, which goes on to its return. *)
GatewayReturn(h) ==
    /\ callPc[CallerOf(h)] = "returned"
    /\ InvokeReturns(h, ret[CallerOf(h)])

NextGateway ==
    \/ \E h \in Handlers, r \in GatewayRequests, ok \in BOOLEAN :
          HandleRequest(h, r, ok)
    \/ \E h \in Handlers : GatewayInvoke(h)
    \/ \E c \in Callers : DialOK(c)
    \/ \E c \in Callers : DialFail(c)
    \/ \E c \in Callers : CallSend(c)
    \/ \E c \in Callers, reply \in GatewayReplies : CallReply(c, reply)
    \/ \E c \in Callers : CallError(c, "transport", ZeroResponse)
    \/ \E c \in Callers : DeadlinePasses(c)
    \/ \E c \in Callers : DeferClose(c)
    \/ \E h \in Handlers : GatewayReturn(h)

SpecGateway == InitGateway /\ [][NextGateway]_vars

(***************************************************************************)
(* Claims about the gateway                                                *)
(***************************************************************************)

(* C26: Invoke sets no time limit of its own.  While the function has not  *)
(* replied and the call has not failed, Invoke has not returned, however   *)
(* long ago the deadline it transmitted passed, and the handler that       *)
(* called it has written nothing; the wait ends only with a reply or a     *)
(* failure of the call.                                                    *)
C26_NoLocalTimeout ==
    /\ [](\A h \in Handlers :
             callPc[CallerOf(h)] = "awaiting" =>
                /\ hPc[h] = "invoking"
                /\ hW[h] = NewWriter
                /\ ret[CallerOf(h)] = NoReturn)
    /\ [][\A c \in Callers :
             (overdue'[c] /\ ~overdue[c]) =>
                (callPc'[c] = "awaiting" /\ ret'[c] = NoReturn)]_vars
    /\ [][\A c \in Callers :
             (callPc[c] = "awaiting" /\ callPc'[c] # "awaiting") =>
                \/ ret'[c].err = Nil /\ ret'[c].resp \in GatewayReplies
                \/ ret'[c].err \in CallFailures]_vars

(* C26 witness: the deadline of h1's call has passed; Invoke is still      *)
(* waiting for the reply and h1 has written nothing, while h2 has been     *)
(* answered.                                                               *)
C26_Witness ==
    /\ overdue["c1"]
    /\ callPc["c1"] = "awaiting"
    /\ hPc["h1"] = "invoking"
    /\ hW["h1"] = NewWriter
    /\ hPc["h2"] = "done"
    /\ hW["h2"].status = 200

(* The response a handler that has returned owes to its own request, its   *)
(* own connection and the outcome of its own call of Invoke.               *)
OwnResponse(h) ==
    IF TranslationOf(h).err # Nil
    THEN HTTPError(NewWriter, "Service Unavailable", 400, hConn[h])
    ELSE IF hRet[h].err # Nil
    THEN HTTPError(NewWriter, "Service Unavailable", 503, hConn[h])
    ELSE LET rr == ReturnHTTPResponse(NewWriter, hRet[h].resp, hConn[h])
         IN IF rr.err # Nil
            THEN HTTPError(rr.w, "Service Unavailable", 500, hConn[h])
            ELSE rr.w

(* What belongs to the handling of one request. *)
StateOf(h) ==
    <<hPc[h], hReq[h], hConn[h], hEvent[h], hCalls[h], hRet[h], hW[h],
      hLog[h], callPc[CallerOf(h)], request[CallerOf(h)],
      response[CallerOf(h)], ret[CallerOf(h)], client[CallerOf(h)]>>

(* C27: with requests handled concurrently, the response to each is fixed  *)
(* by its own event and the reply to its own invocation, the invocation    *)
(* carries its own event, and no step of one request changes the route     *)
(* table or what belongs to another request.                               *)
C27_RequestsIndependent ==
    /\ [](\A h \in Handlers :
             /\ hPc[h] = "done" => hW[h] = OwnResponse(h)
             /\ (hPc[h] = "done" /\ hCalls[h] = 1) =>
                   /\ hRet[h] = ret[CallerOf(h)]
                   /\ request[CallerOf(h)].Payload = TranslationOf(h).bytes)
    /\ [][routes' = routes]_vars
    /\ [][\E h \in Handlers :
             \A g \in Handlers \ {h} : StateOf(g)' = StateOf(g)]_vars

(* C27 witness: two different requests were in their invocations at the    *)
(* same time and each got the response its own reply calls for.            *)
C27_Witness ==
    /\ hPc["h1"] = "done"
    /\ hPc["h2"] = "done"
    /\ hReq["h1"].Path = "/test"
    /\ hReq["h2"].Path = "/users/42"
    /\ hCalls = [h \in Handlers |-> 1]
    /\ hW["h1"].status = 200
    /\ hW["h2"].status = 500
    /\ conns[1].owner = "c2"
    /\ conns[2].owner = "c1"

(***************************************************************************)
(* parseTemplate (src/api.go 875-925)                                      *)
(*                                                                         *)
(* The file at templatePath cannot be read, is not YAML that decodes into  *)
(* samTemplate, or decodes into Resources: a map from resource names to    *)
(* maps from event names to events.  A resource with no Events has the     *)
(* empty map.  The two loops range over Go maps, whose order of traversal  *)
(* is not specified: a traversal is an order of the resources and, for     *)
(* each resource, an order of its events.                                  *)
(***************************************************************************)

(* strings.ToUpper for the methods of the model. *)
ToUpper(x) ==
    CASE x \in {"get", "GET"} -> "GET"
      [] x \in {"post", "Post", "POST"} -> "POST"
      [] x \in {"put", "PUT"} -> "PUT"
      [] OTHER -> x

(* The method of a route, as the descriptor has it. *)
RouteMethodVerbatim(method) == method

(* The method of a route (line 917). *)
RouteMethod(method) == ToUpper(method)

(* apiRoute{...} of an event (lines 916-919) *)
RouteOfEvent(event) ==
    [method |-> RouteMethod(event.Properties.Method),
     path |-> event.Properties.Path]

(* The orders in which a set can be traversed. *)
Perms(S) ==
    {f \in [1 .. Cardinality(S) -> S] :
        \A i, j \in 1 .. Cardinality(S) : f[i] = f[j] => i = j}

RECURSIVE Flatten(_)
Flatten(seqs) ==
    IF seqs = <<>> THEN <<>> ELSE Head(seqs) \o Flatten(Tail(seqs))

(* The traversals of the Resources of a file. *)
Traversals(file) ==
    IF file.t # "yaml"
    THEN {[res |-> <<>>, ev |-> EmptyMap]}
    ELSE {[res |-> ro, ev |-> eo] :
            ro \in Perms(DOMAIN file.Resources),
            eo \in {f \in [DOMAIN file.Resources ->
                             UNION {Perms(DOMAIN file.Resources[r]) :
                                      r \in DOMAIN file.Resources}] :
                      \A r \in DOMAIN file.Resources :
                         f[r] \in Perms(DOMAIN file.Resources[r])}}

(* parseTemplate(templatePath, reader) under a traversal: the routes and   *)
(* the error.                                                              *)
ParseTemplate(file, tr) ==
    IF file.t = "unreadable"
    THEN [routes |-> <<>>, err |-> "readFile"]
    ELSE IF file.t = "malformed"
    THEN [routes |-> <<>>, err |-> "unmarshalYaml"]
    ELSE [routes |->
            Flatten([i \in DOMAIN tr.res |->
                       [j \in DOMAIN tr.ev[tr.res[i]] |->
                          RouteOfEvent(file.Resources[tr.res[i]]
                                                     [tr.ev[tr.res[i]][j]])]]),
          err |-> Nil]

(* The descriptors of the model. *)
ResourceNames == {"FirstLambdaFunction", "SecondLambdaFunction"}

EventNames == {"ApiEvent", "OtherEvent"}

Event(type, path, method) ==
    [Type |-> type, Properties |-> [Path |-> path, Method |-> method]]

Events ==
    {Event("Api", "/first/path", "post"), Event("Api", "/second/path", "put"),
     Event("Api", "/first/path", "POST"), Event("S3", "", "")}

(* The maps from some of the keys to the values. *)
MapsOf(keys, values) == UNION {[K -> values] : K \in SUBSET keys}

Templates ==
    {[t |-> "unreadable"], [t |-> "malformed"]}
    \cup {[t |-> "yaml", Resources |-> d] :
            d \in MapsOf(ResourceNames, MapsOf(EventNames, Events))}

InitTemplate ==
    /\ ServerOff
    /\ InvokeOff
    /\ ResponseOff
    /\ RequestOff
    /\ HandlerOff
    /\ tplPc = "ready"
    /\ template \in Templates
    /\ routes = <<>>
    /\ tplErr = Nil
    /\ apiPc = "off"
    /\ apiErr = Nil
    /\ InnerOff
    /\ EventOff

(* parseTemplate is applied to the file. *)
ParseTemplateCall(tr) ==
    /\ tplPc = "ready"
    /\ apiPc = "off"
    /\ routes' = ParseTemplate(template, tr).routes
    /\ tplErr' = ParseTemplate(template, tr).err
    /\ tplPc' = "parsed"
    /\ UNCHANGED <<template, apiPc, apiErr>>
    /\ UNCHANGED notTemplate

NextTemplate == \E tr \in Traversals(template) : ParseTemplateCall(tr)

SpecTemplate == InitTemplate /\ [][NextTemplate]_vars

(***************************************************************************)
(* Claims about parseTemplate                                              *)
(***************************************************************************)

(* The events the descriptor declares: resource and event name. *)
Declared ==
    UNION {{<<r, e>> : e \in DOMAIN template.Resources[r]} :
             r \in DOMAIN template.Resources}

(* The route an event stands for: its method in upper case, its path. *)
Stands(d) ==
    [method |-> ToUpper(template.Resources[d[1]][d[2]].Properties.Method),
     path |-> template.Resources[d[1]][d[2]].Properties.Path]

NoRoutesIgnored(rs) == FALSE

(* len(routes) == 0 (line 602) *)
NoRoutes(rs) == Len(rs) = 0

(* The descriptors RunLambdaAPI is run on: one that cannot be read, one    *)
(* that does not decode, one with no resource, one whose resource has no   *)
(* event, one with a route, one whose two resources declare the same       *)
(* method and path.                                                        *)
APITemplates ==
    {[t |-> "unreadable"], [t |-> "malformed"],
     [t |-> "yaml", Resources |-> EmptyMap],
     [t |-> "yaml",
      Resources |-> [r \in {"FirstLambdaFunction"} |-> EmptyMap]],
     [t |-> "yaml",
      Resources |-> [r \in {"FirstLambdaFunction"} |->
                       [e \in {"ApiEvent"} |->
                          Event("Api", "/first/path", "post")]]],
     [t |-> "yaml",
      Resources |-> [r \in ResourceNames |->
                       [e \in {"ApiEvent"} |->
                          Event("Api", "/first/path",
                                IF r = "FirstLambdaFunction"
                                THEN "post" ELSE "POST")]]]}

InitAPI ==
    /\ ServerOff
    /\ InvokeOff
    /\ ResponseOff
    /\ RequestOff
    /\ HandlerOff
    /\ tplPc = "ready"
    /\ template \in APITemplates
    /\ routes = <<>>
    /\ tplErr = Nil
    /\ apiPc = "start"
    /\ apiErr = Nil
    /\ InnerOff
    /\ EventOff

(* RunLambdaAPI up to its return or its call of runServer (lines           *)
(* 593-606).                                                               *)
RunLambdaAPIStart(tr) ==
    /\ apiPc = "start"
    /\ LET p == ParseTemplate(template, tr)
       IN /\ routes' = p.routes
          /\ tplErr' = p.err
          /\ tplPc' = "parsed"
          /\ IF p.err # Nil
             THEN /\ apiPc' = "returned"
                  /\ apiErr' = "parseTemplate failed"
                  /\ UNCHANGED <<mainPc, watcherPc>>
             ELSE IF NoRoutes(p.routes)
             THEN /\ apiPc' = "returned"
                  /\ apiErr' = "no routes found"
                  /\ UNCHANGED <<mainPc, watcherPc>>
             ELSE /\ apiPc' = "runServer"
                  /\ apiErr' = Nil
                  /\ mainPc' = "init"
                  /\ watcherPc' = "notStarted"
    /\ UNCHANGED <<quit, signals, inShutdown, listener, inflight, completed,
                   watcherErr, result, acceptedLate, abandoned, listenFailed>>
    /\ UNCHANGED template
    /\ UNCHANGED <<invokeVars, responseVars, requestVars, handlerVars,
                   innerVars, eventVars, ctxDone>>

(* runServer has returned: RunLambdaAPI returns its error, wrapped, or nil *)
(* (lines 606-610).                                                        *)
RunLambdaAPIReturn ==
    /\ apiPc = "runServer"
    /\ mainPc = "returned"
    /\ apiPc' = "returned"
    /\ apiErr' = IF result = "nil" THEN Nil ELSE "runServer failed"
    /\ UNCHANGED <<serverVars, templateVars>>
    /\ UNCHANGED <<invokeVars, responseVars, requestVars, handlerVars,
                   innerVars, eventVars, ctxDone>>

NextAPI ==
    \/ \E tr \in Traversals(template) : RunLambdaAPIStart(tr)
    \/ NextServer
    \/ RunLambdaAPIReturn

SpecAPI == InitAPI /\ [][NextAPI]_vars

(***************************************************************************)
(* Claims about RunLambdaAPI                                               *)
(***************************************************************************)

(* The descriptor cannot be read, does not decode, or declares no event. *)
ConfigurationError ==
    \/ template.t \in {"unreadable", "malformed"}
    \/ template.t = "yaml" /\ Declared = {}

(* runServer was never called: no handler registered, no listener opened,  *)
(* no request served.                                                      *)
NeverServed ==
    /\ mainPc = "off"
    /\ watcherPc = "off"
    /\ listener = "none"
    /\ inflight = {}
    /\ completed = {}

(* C16: when the descriptor cannot be read, cannot be parsed or yields no  *)
(* route, RunLambdaAPI returns an error, and it never registers a handler, *)
(* opens the listener or serves a request.                                 *)
C16_ConfigurationErrorsAbort ==
    ConfigurationError =>
        /\ NeverServed
        /\ apiPc \in {"start", "returned"}
        /\ apiPc = "returned" => apiErr # Nil

(* C16 witness: a descriptor whose one resource declares no event made     *)
(* RunLambdaAPI return "no routes found" with nothing served.              *)
C16_Witness ==
    /\ apiPc = "returned"
    /\ template.t = "yaml"
    /\ DOMAIN template.Resources = {"FirstLambdaFunction"}
    /\ tplErr = Nil
    /\ apiErr = "no routes found"
    /\ NeverServed

(* C21: when the descriptor yields two routes of the same method and path, *)
(* both are registered without failure and the server starts.              *)
C21_DuplicateRoutesRegistered ==
    (apiPc = "runServer" /\ Conflicts(routes)) => mainPc # "panicked"

(***************************************************************************)
(* parseInnerJSON (src/print_response.go 57-72)                            *)
(*                                                                         *)
(* parseInnerJSON is given the map json.Unmarshal made of a JSON object.   *)
(* It updates that map in place and returns it: innerData is the map as it *)
(* was given, innerResult the map returned.                                *)
(***************************************************************************)
InnerTexts ==
    {"{\"m\":\"hi\"}", "{\"m\":\"[1]\"}", "[1]", "200", "true", "null",
     "\"hi\"", "\"[1]\"", "hello", ""}

InnerValues ==
    {JStr(x) : x \in InnerTexts}
    \cup {JNum(1), JNull, JObj([m |-> JStr("200")]), JArr(<<JStr("200")>>)}

InnerKeys == {"body", "n"}

InitInner ==
    /\ ServerOff
    /\ InvokeOff
    /\ ResponseOff
    /\ RequestOff
    /\ HandlerOff
    /\ TemplateOff
    /\ EventOff
    /\ innerPc = "ready"
    /\ innerData \in MapsOf(InnerKeys, InnerValues)
    /\ innerResult = EmptyMap
    /\ innerTwice = EmptyMap

(* parseInnerJSON is applied to the map. *)
Normalise ==
    /\ innerPc = "ready"
    /\ innerResult' = ParseInnerJSON(innerData)
    /\ innerPc' = "done"
    /\ UNCHANGED <<innerData, innerTwice>>
    /\ UNCHANGED notInner

(* parseInnerJSON is applied to the map it returned. *)
NormaliseAgain ==
    /\ innerPc = "done"
    /\ innerTwice' = ParseInnerJSON(innerResult)
    /\ innerPc' = "twice"
    /\ UNCHANGED <<innerData, innerResult>>
    /\ UNCHANGED notInner

NextInner == Normalise \/ NormaliseAgain

SpecInner == InitInner /\ [][NextInner]_vars

(***************************************************************************)
(* Claims about parseInnerJSON                                             *)
(***************************************************************************)

(* A string that parses as JSON. *)
Parses(j) == j.t = "str" /\ ParseText(j.v).err = Nil

(* C18: parseInnerJSON returns a map with exactly the keys of its input;   *)
(* a string value that parses as JSON is replaced by the parsed value, be  *)
(* it an object, an array, a number, a boolean, a string or null; a string *)
(* that does not parse and a value that is not a string are left as they   *)
(* are; and nothing inside a parsed value or inside a value that was not a *)
(* string is parsed in its turn.                                           *)
C18_TopLevelStringsParsed ==
    innerPc # "ready" =>
        /\ DOMAIN innerResult = DOMAIN innerData
        /\ \A k \in DOMAIN innerData :
              /\ Parses(innerData[k]) =>
                    innerResult[k] = ParseText(innerData[k].v).val
              /\ ~Parses(innerData[k]) => innerResult[k] = innerData[k]
              /\ innerData[k] = JStr("{\"m\":\"[1]\"}") =>
                    innerResult[k] = JObj([m |-> JStr("[1]")])
              /\ innerData[k] = JObj([m |-> JStr("200")]) =>
                    innerResult[k] = JObj([m |-> JStr("200")])

(* C18 witness: a body that is the text of an object holding the text of   *)
(* an array became that object, the text inside it still a string, beside  *)
(* a string that does not parse and stayed.                                *)
C18_Witness ==
    /\ innerPc # "ready"
    /\ innerData = [body |-> JStr("{\"m\":\"[1]\"}"), n |-> JStr("hello")]
    /\ innerResult = [body |-> JObj([m |-> JStr("[1]")]), n |-> JStr("hello")]

(* A string that is the JSON text of a string that is itself JSON text. *)
TwiceEncoded(j) == Parses(j) /\ Parses(ParseText(j.v).val)

(* C28 as stated: applied to its own output, parseInnerJSON changes        *)
(* nothing, whatever the map m of one level it was first given.            *)
C28_Idempotent ==
    innerPc = "twice" => innerTwice = innerResult

(* C28: applied to its own output, parseInnerJSON changes nothing if no    *)
(* string of m is the JSON text of a string that is itself JSON text, and  *)
(* otherwise replaces each such entry by the value of the inner text.      *)
C28_IdempotentOnOnceEncoded ==
    innerPc = "twice" =>
        /\ DOMAIN innerTwice = DOMAIN innerData
        /\ (\A k \in DOMAIN innerData : ~TwiceEncoded(innerData[k]))
              => innerTwice = innerResult
        /\ \A k \in DOMAIN innerData :
              TwiceEncoded(innerData[k]) =>
                 /\ innerTwice[k] = ParseText(innerResult[k].v).val
                 /\ innerTwice[k] # innerResult[k]

(* C28 witness: the text of an array and a text that does not parse went   *)
(* through twice, and the second application changed nothing.              *)
C28_Witness ==
    /\ innerPc = "twice"
    /\ innerData = [body |-> JStr("[1]"), n |-> JStr("hello")]
    /\ innerResult = [body |-> JArr(<<JNum(1)>>), n |-> JStr("hello")]
    /\ innerTwice = innerResult

(***************************************************************************)
(* RunLambdaEvent (src/unnamed/part_005 10-38)                             *)
(***************************************************************************)

(* []byte(event): the bytes of the string, whatever they are. *)
BytesOf(event) == Text(event)

EventStrings == {"", "{\"key\":\"value\"}", "test", "[1]"}

InitEvent ==
    /\ ServerOff
    /\ InvokeOff
    /\ ResponseOff
    /\ RequestOff
    /\ HandlerOff
    /\ TemplateOff
    /\ InnerOff
    /\ evPc = "start"
    /\ evEvent \in EventStrings
    /\ evParseJSON \in BOOLEAN
    /\ evData = NoPayload
    /\ evCalls = 0
    /\ evRet = NoReturn
    /\ evErr = Nil
    /\ evLog = <<>>

(* RunLambdaEvent up to its call of lambdaRPC.Invoke (lines 18-24). *)
RunLambdaEventStart ==
    /\ evPc = "start"
    /\ evData' = BytesOf(evEvent)
    /\ evCalls' = evCalls + 1
    /\ evPc' = "invoking"
    /\ UNCHANGED <<evEvent, evParseJSON, evRet, evErr, evLog>>
    /\ UNCHANGED notEvent

(* RunLambdaEvent from the return of Invoke to its own return (lines       *)
(* 24-37).                                                                 *)
RunLambdaEventReturn(out) ==
    /\ evPc = "invoking"
    /\ evRet' = out
    /\ IF out.err # Nil
       THEN /\ evErr' = "invoke failed"
            /\ UNCHANGED evLog
       ELSE LET pr == PrintResponse(out.resp, evParseJSON)
            IN IF pr.err # Nil
               THEN /\ evErr' = "printResponse failed"
                    /\ evLog' = evLog \o pr.log
               ELSE /\ evErr' = Nil
                    /\ evLog' = evLog \o pr.log \o
                                <<Record("info", "Lambda invocation complete",
                                         NoPayload)>>
    /\ evPc' = "returned"
    /\ UNCHANGED <<evEvent, evParseJSON, evData, evCalls>>
    /\ UNCHANGED notEvent

NextEvent ==
    \/ RunLambdaEventStart
    \/ \E out \in InvokeOutcomes : RunLambdaEventReturn(out)

SpecEvent == InitEvent /\ [][NextEvent]_vars

(***************************************************************************)
(* Claims about RunLambdaEvent                                             *)
(***************************************************************************)

(* C19: RunLambdaEvent calls Invoke once, with the bytes of the event      *)
(* string, and returns an error exactly when that call returned one; when  *)
(* the call succeeded it returns nil whether the payload is JSON, is not   *)
(* JSON or is absent and whether or not the reply carries a remote error,  *)
(* and a payload that is not JSON is logged as it is.                      *)
C19_EventErrorIffInvokeError ==
    /\ evCalls <= 1
    /\ evPc # "start" => evCalls = 1 /\ evData = Text(evEvent)
    /\ evPc = "returned" =>
          /\ evErr # Nil <=> evRet.err # Nil
          /\ evRet.err # Nil => evErr = "invoke failed"
          /\ evRet.err = Nil /\ evRet.resp.Payload.t \notin {"nil", "obj", "null"} =>
                \E i \in DOMAIN evLog :
                    /\ evLog[i].msg = "Lambda returned non-JSON payload"
                    /\ evLog[i].val = evRet.resp.Payload

(* C19 witness: Invoke returned a remote error and a payload that is not   *)
(* JSON; RunLambdaEvent logged the payload and returned nil.               *)
C19_Witness ==
    /\ evPc = "returned"
    /\ evCalls = 1
    /\ evRet.err = Nil
    /\ evRet.resp.Error # Nil
    /\ evRet.resp.Payload = Text("{")
    /\ evErr = Nil
    /\ \E i \in DOMAIN evLog : evLog[i].val = Text("{")

=============================================================================
